---------------------------- MODULE Spec2Model ----------------------------
(***************************************************************************)
(* A model of the classification-and-retrieval engine of quanlytailieu:    *)
(* the keyword classifier (classifier.py), the analyzer's executive        *)
(* summary (analyzer.py), the credential lookup (config.py) and the        *)
(* question-answering pipeline (qa_system.py) over the document store      *)
(* (database.py).                                                          *)
(*                                                                         *)
(* Strings.  A Python string is modelled as a sequence of chunks.  A chunk *)
(* [t |-> tag, n |-> k] stands for the first k characters of the piece of  *)
(* text named by tag; CharLen(tag) is the length of the whole piece.  Two  *)
(* strings are equal iff their chunk sequences are equal.  Substring       *)
(* search (re.findall, `in`) works on whole pieces: the pieces used below  *)
(* are chosen so that no keyword or question token of the program occurs   *)
(* across a piece boundary other than as the listed pieces.  Vietnamese    *)
(* text is written without diacritics.                                     *)
(***************************************************************************)
EXTENDS Integers, Sequences, FiniteSets, TLC

VARIABLES
    stage,           \* position of the flow the specification runs
    content,         \* text of the document being processed
    filename,        \* its file name
    uploads,         \* names of the temporary files in uploads/
    selected_folder, \* st.session_state.selected_folder, if there is one
    group_selector,  \* the file and the group of the selectbox of the page
    metadata,        \* what MetadataExtractor found in the document
    classification,  \* result of DocumentClassifier.classify
    analysis,        \* what the last DocumentAnalyzer.analyze returned
    analyzeCall,     \* its use_openai and the outcome of its external call
    sessionKey,      \* st.session_state.openai_api_key
    envKey,          \* os.getenv('OPENAI_API_KEY')
    fileKey,         \* config.json: openai_api_key
    current_api_key, \* what the last Config.get_api_key() returned
    OPENAI_AVAILABLE, \* the openai package could be imported
    client,          \* QASystem.client
    db,              \* rows of table documents, in rowid order
    lastId,          \* sqlite_sequence of table documents: the last id given
    qaCall,          \* arguments and external outcome of the last answer_question
    qaResult         \* what the last answer_question returned

pageVars == <<selected_folder, group_selector>>
docVars ==
    <<content, filename, uploads, pageVars, metadata, classification,
      analysis, analyzeCall>>
keyVars == <<sessionKey, envKey, fileKey, current_api_key>>
storeVars == <<db, lastId>>
qaVars == <<qaCall, qaResult>>

vars == <<stage, docVars, keyVars, OPENAI_AVAILABLE, client, storeVars, qaVars>>

-----------------------------------------------------------------------------
(* Bounds of the model *)

\* longest document text typed in the classifier specification, in pieces
MaxContentLen == 5

\* most rows saved to the store in the question-answering specification
MaxStored == 3

\* longest document text typed in the analyzer specification, in pieces
MaxTextLen == 3

\* most rows saved to the store in the search specification
MaxShelf == 4

\* most rows ever saved to the store in the store specification
MaxRows == 6

\* most rows saved to the store in the upload specification
MaxUploaded == 2

\* most phrases of a text given to the metadata extractor
MaxPhrases == 3

-----------------------------------------------------------------------------
(* Strings as sequences of chunks *)

\* len() of the whole piece of text a tag names
CharLen(tag) ==
    CASE tag = "TOD" -> 3
      [] tag = "4" -> 1
      [] tag = "du an" -> 5
      [] tag = " " -> 1
      [] tag = "\n" -> 1
      [] tag = "chung cu" -> 8
      [] tag = "NOXH" -> 4
      [] tag = ".pdf" -> 4
      [] tag = "bao cao" -> 7
      [] tag = "Metro" -> 5
      [] tag = "metro" -> 5
      [] tag = "ga" -> 2
      [] tag = "thau" -> 4
      [] tag = "P30" -> 30
      [] tag = "P100" -> 100
      [] tag = "P4994" -> 4994
      [] tag = "P4997" -> 4997
      [] tag = "P12000" -> 12000
      [] tag = "P60" -> 60
      [] tag = "P450" -> 450
      [] tag = "P600" -> 600
      [] tag = "ANS" -> 40
      [] tag = "sk-E" -> 4
      [] tag = "sk-S" -> 4
      [] tag = "19" -> 2
      [] tag = "02" -> 2
      [] tag = "2025" -> 4
      [] tag = "/" -> 1
      [] tag = "-" -> 1
      [] tag = "..." -> 3
      [] tag = "Tai lieu thuoc nhom: " -> 21
      [] tag = ". " -> 2
      [] tag = "Metro/Duong sat do thi" -> 22
      [] tag = "Dau thau/Khu giao duc/TOD" -> 25
      [] tag = "Chung cu" -> 8
      [] tag = "Nha o xa hoi" -> 12
      [] tag = "Khac" -> 4
      [] tag = "Tai lieu hien co chua cung cap thong tin nay." -> 45
      [] tag = "nghi dinh so" -> 12
      [] tag = "bao mat" -> 7
      [] tag = "bi mat" -> 6
      [] tag = "khong cong bo" -> 13
      [] tag = "bao" -> 3
      [] tag = "bi" -> 2
      [] tag = "mat" -> 3
      [] tag = "MAT" -> 3
      [] tag = "khong" -> 5
      [] tag = "cong bo" -> 7
      [] tag = "quyet dinh so" -> 13
      [] tag = "thong tu so" -> 11
      [] tag = "Nghi dinh so" -> 12
      [] tag = "15/2025" -> 7
      [] tag = "ND" -> 2
      [] tag = "QD" -> 2
      [] tag = "TT" -> 2
      [] tag = "ngay" -> 4
      [] tag = "Ngay" -> 4
      [] tag = "ban" -> 3
      [] tag = "hanh" -> 4
      [] tag = "thang" -> 5
      [] tag = "nam" -> 3
      [] tag = "Nghi dinh" -> 9
      [] tag = "nghi dinh" -> 9
      [] tag = "Nghi quyet" -> 10
      [] tag = "nghi quyet" -> 10
      [] tag = "Thong tu" -> 8
      [] tag = "thong tu" -> 8
      [] tag = "Luat" -> 4
      [] tag = "luat" -> 4
      [] tag = "Quyet dinh" -> 10
      [] tag = "quyet dinh" -> 10
      [] tag = "Chi thi" -> 7
      [] tag = "chi thi" -> 7
      [] tag = "Thong bao" -> 9
      [] tag = "thong bao" -> 9
      [] tag = "Cong van" -> 8
      [] tag = "cong van" -> 8
      [] tag = "Quy che" -> 7
      [] tag = "quy che" -> 7
      [] tag = "Quy dinh" -> 8
      [] tag = "quy dinh" -> 8
      [] tag = "QUYET DINH" -> 10
      [] tag = "so" -> 2
      [] tag = "P990" -> 990
      [] tag = "P250" -> 250
      [] tag = "Chinh" -> 5
      [] tag = "chinh" -> 5
      [] tag = "phu" -> 3
      [] tag = "quoc" -> 4
      [] tag = "hoi" -> 3
      [] tag = "Bo" -> 2
      [] tag = "bo" -> 2
      [] tag = "uy" -> 2
      [] tag = "so'" -> 2
      [] tag = "UBND" -> 4
      [] tag = "ubnd" -> 4
      [] tag = "hdnd" -> 4
      [] tag = "thu" -> 3
      [] tag = "tuong" -> 5
      [] tag = "chu" -> 3
      [] tag = "tich" -> 4
      [] tag = "cua" -> 3
      [] tag = "CUA" -> 3
      [] tag = "Tai chinh" -> 9
      [] tag = "tai chinh" -> 9
      [] tag = "Ngan hang" -> 9
      [] tag = "ngan hang" -> 9
      [] tag = "P1490" -> 1490
      [] OTHER -> 1

Chunk(tag) == [t |-> tag, n |-> CharLen(tag)]

\* a string made of whole pieces
RECURSIVE Str(_)
Str(tags) ==
    IF tags = <<>> THEN <<>> ELSE <<Chunk(Head(tags))>> \o Str(Tail(tags))

\* str.lower() of one piece
LowerTag(tag) ==
    CASE tag = "TOD" -> "tod"
      [] tag = "NOXH" -> "noxh"
      [] tag = "RAMS" -> "rams"
      [] tag = "FEED" -> "feed"
      [] tag = "Pre-FS" -> "pre-fs"
      [] tag = "FS" -> "fs"
      [] tag = "MRT" -> "mrt"
      [] tag = "duong Thong Nhat" -> "duong thong nhat"
      [] tag = "Suoi Cay Sao" -> "suoi cay sao"
      [] tag = "PPP" -> "ppp"
      [] tag = "BT" -> "bt"
      [] tag = "BOT" -> "bot"
      [] tag = "Metro" -> "metro"
      [] tag = "Nghi dinh so" -> "nghi dinh so"
      [] tag = "ANS" -> "ans"
      [] tag = "Ngay" -> "ngay"
      [] tag = "Chinh" -> "chinh"
      [] tag = "Bo" -> "bo"
      [] tag = "UBND" -> "ubnd"
      [] tag = "CUA" -> "cua"
      [] tag = "Tai chinh" -> "tai chinh"
      [] tag = "Ngan hang" -> "ngan hang"
      [] tag = "Nghi dinh" -> "nghi dinh"
      [] tag = "Nghi quyet" -> "nghi quyet"
      [] tag = "Thong tu" -> "thong tu"
      [] tag = "Luat" -> "luat"
      [] tag = "Quyet dinh" -> "quyet dinh"
      [] tag = "Chi thi" -> "chi thi"
      [] tag = "Thong bao" -> "thong bao"
      [] tag = "Cong van" -> "cong van"
      [] tag = "Quy che" -> "quy che"
      [] tag = "Quy dinh" -> "quy dinh"
      [] tag = "QUYET DINH" -> "quyet dinh"
      [] tag = "MAT" -> "mat"
      [] tag = "Du thao" -> "du thao"
      [] tag = "Cong khai" -> "cong khai"
      [] OTHER -> tag

\* str.lower()
RECURSIVE Lower(_)
Lower(s) ==
    IF s = <<>> THEN <<>>
    ELSE <<[t |-> LowerTag(Head(s).t), n |-> Head(s).n]>> \o Lower(Tail(s))

\* pattern occurs in text at position i
MatchAt(text, pat, i) ==
    /\ i + Len(pat) - 1 <= Len(text)
    /\ \A j \in 1..Len(pat) : text[i + j - 1] = pat[j]

\* len(re.findall(re.escape(pat), text)): occurrences counted left to right,
\* the scan resuming after each occurrence
RECURSIVE CountFrom(_, _, _)
CountFrom(text, pat, i) ==
    IF i + Len(pat) - 1 > Len(text) THEN 0
    ELSE IF MatchAt(text, pat, i) THEN 1 + CountFrom(text, pat, i + Len(pat))
    ELSE CountFrom(text, pat, i + 1)

FindallCount(pat, text) == CountFrom(text, pat, 1)

\* pat in text
Contains(text, pat) == \E i \in 1..(Len(text) + 1) : MatchAt(text, pat, i)

\* a piece that str.strip() and str.split() take for white space
IsSpace(chunk) == chunk.t \in {" ", "\n", "\t"}

\* len(s)
RECURSIVE StrLen(_)
StrLen(s) == IF s = <<>> THEN 0 ELSE Head(s).n + StrLen(Tail(s))

\* s.lstrip()
RECURSIVE LStrip(_)
LStrip(s) == IF s # <<>> /\ IsSpace(Head(s)) THEN LStrip(Tail(s)) ELSE s

\* s.rstrip()
RECURSIVE RStrip(_)
RStrip(s) ==
    IF s # <<>> /\ IsSpace(s[Len(s)]) THEN RStrip(SubSeq(s, 1, Len(s) - 1))
    ELSE s

\* s.strip()
Strip(s) == RStrip(LStrip(s))

\* s[:k]: the pieces that fit whole, then the fitting part of the next one
RECURSIVE Take(_, _)
Take(s, k) ==
    IF s = <<>> \/ k <= 0 THEN <<>>
    ELSE IF Head(s).n <= k THEN <<Head(s)>> \o Take(Tail(s), k - Head(s).n)
    ELSE <<[t |-> Head(s).t, n |-> k]>>

\* s.split(sep) for a separator of one piece: the parts between the
\* separators, empty parts kept
RECURSIVE SplitAt(_, _, _)
SplitAt(s, sep, part) ==
    IF s = <<>> THEN <<part>>
    ELSE IF Head(s).t = sep THEN <<part>> \o SplitAt(Tail(s), sep, <<>>)
    ELSE SplitAt(Tail(s), sep, Append(part, Head(s)))

Split(s, sep) == SplitAt(s, sep, <<>>)

\* s.split(): the parts between runs of white space, none of them empty
RECURSIVE SplitWordsAt(_, _)
SplitWordsAt(s, word) ==
    IF s = <<>> THEN (IF word = <<>> THEN <<>> ELSE <<word>>)
    ELSE IF IsSpace(Head(s))
         THEN (IF word = <<>> THEN <<>> ELSE <<word>>)
              \o SplitWordsAt(Tail(s), <<>>)
    ELSE SplitWordsAt(Tail(s), Append(word, Head(s)))

SplitWords(s) == SplitWordsAt(s, <<>>)

\* sep.join(parts)
RECURSIVE Join(_, _)
Join(sep, parts) ==
    IF parts = <<>> THEN <<>>
    ELSE IF Len(parts) = 1 THEN parts[1]
    ELSE parts[1] \o sep \o Join(sep, Tail(parts))

\* bool(s) of a string
NonEmpty(s) == s # <<>>

\* an Optional value: None is the empty sequence, a value x is <<x>>
None == <<>>

Some(x) == <<x>>

IsSome(o) == o # <<>>

Val(o) == o[1]

\* seq[:k] of a list
FirstN(list, k) == SubSeq(list, 1, IF Len(list) < k THEN Len(list) ELSE k)

\* the words and the white space that a piece holds together
Words(tag) ==
    CASE tag = "Nghi dinh so" -> <<"Nghi dinh", " ", "so">>
      [] tag = "nghi dinh so" -> <<"nghi dinh", " ", "so">>
      [] tag = "quyet dinh so" -> <<"quyet dinh", " ", "so">>
      [] tag = "thong tu so" -> <<"thong tu", " ", "so">>
      [] tag = "bao mat" -> <<"bao", " ", "mat">>
      [] tag = "bi mat" -> <<"bi", " ", "mat">>
      [] tag = "khong cong bo" -> <<"khong", " ", "cong bo">>
      [] OTHER -> <<tag>>

\* a string with such pieces taken apart; of a piece that a slice has cut,
\* the part that is left
RECURSIVE WordPieces(_)
WordPieces(s) ==
    IF s = <<>> THEN <<>>
    ELSE Take(Str(Words(Head(s).t)), Head(s).n) \o WordPieces(Tail(s))

-----------------------------------------------------------------------------
(* classifier.py *)

\* the keys of KEYWORDS in declaration order
GroupOrder == <<"metro", "dau_thau", "chung_cu", "nha_o_xa_hoi">>

GROUPS == {GroupOrder[i] : i \in 1..Len(GroupOrder)}

KEYWORDS(group) ==
    CASE group = "metro" ->
           <<"metro", "duong sat do thi", "tuyen metro", "tuyen duong sat",
             "depot", "nha ga", "RAMS", "FEED", "Pre-FS", "FS", "khao sat",
             "thiet ke metro", "van hanh metro", "TOD", "transit-oriented",
             "ha tang giao thong", "duong ray", "doan tau", "tau dien",
             "MRT", "urban rail", "mass transit">>
      [] group = "dau_thau" ->
           <<"dau thau", "moi thau", "ho so du thau", "de xuat ky thuat",
             "de xuat tai chinh", "nha thau", "dau thau rong rai",
             "dam phan canh tranh", "khu giao duc", "duong Thong Nhat",
             "Suoi Cay Sao", "TOD4", "quy hoach", "dau tu", "du an",
             "thuyet minh du an", "ho so moi thau", "PPP", "BT", "BOT">>
      [] group = "chung_cu" ->
           <<"chung cu", "can ho", "apartment", "condominium",
             "nha o cao tang", "du an chung cu", "ban nha", "mua nha",
             "so do chung cu", "phap ly chung cu", "thiet ke chung cu",
             "xay dung chung cu", "kinh doanh bat dong san",
             "ban hang chung cu">>
      [] group = "nha_o_xa_hoi" ->
           <<"nha o xa hoi", "NOXH", "nha o cong nhan",
             "nha o cho nguoi thu nhap thap", "chinh sach nha o xa hoi",
             "uu dai nha o", "an sinh xa hoi", "du an an sinh",
             "nha o cho nguoi ngheo", "social housing">>

\* a keyword of KEYWORDS as a string: the keywords that hold one of the
\* pieces a modelled text can hold are cut at those pieces
KeywordStr(keyword) ==
    CASE keyword = "TOD4" -> Str(<<"TOD", "4">>)
      [] keyword = "thuyet minh du an" -> Str(<<"thuyet minh", " ", "du an">>)
      [] keyword = "du an chung cu" -> Str(<<"du an", " ", "chung cu">>)
      [] keyword = "so do chung cu" -> Str(<<"so do", " ", "chung cu">>)
      [] keyword = "phap ly chung cu" -> Str(<<"phap ly", " ", "chung cu">>)
      [] keyword = "thiet ke chung cu" -> Str(<<"thiet ke", " ", "chung cu">>)
      [] keyword = "xay dung chung cu" -> Str(<<"xay dung", " ", "chung cu">>)
      [] keyword = "ban hang chung cu" -> Str(<<"ban hang", " ", "chung cu">>)
      [] keyword = "du an an sinh" -> Str(<<"du an", " ", "an sinh">>)
      [] OTHER -> Str(<<keyword>>)

FOLDER_MAPPING(group) ==
    CASE group = "metro" -> "Metro_DuongSatDoThi"
      [] group = "dau_thau" -> "DauThau_KhuGiaoDuc_TOD"
      [] group = "chung_cu" -> "ChungCu"
      [] group = "nha_o_xa_hoi" -> "NhaO_XaHoi"

\* classify, line 74: keyword.lower() of every keyword of a group, in list
\* order (re.escape makes the pattern match the keyword literally)
RECURSIVE LowerAll(_)
LowerAll(keywords) ==
    IF keywords = <<>> THEN <<>>
    ELSE <<Lower(KeywordStr(Head(keywords)))>> \o LowerAll(Tail(keywords))

PATTERNS ==
    [metro |-> LowerAll(KEYWORDS("metro")),
     dau_thau |-> LowerAll(KEYWORDS("dau_thau")),
     chung_cu |-> LowerAll(KEYWORDS("chung_cu")),
     nha_o_xa_hoi |-> LowerAll(KEYWORDS("nha_o_xa_hoi"))]

\* classify, lines 72-78: count = len(re.findall(pattern, content_lower))
TextCount(pattern, content_lower) == FindallCount(pattern, content_lower)

\* classify, lines 81-85: keyword.lower() in filename_lower
InFilename(pattern, filename_lower) == Contains(filename_lower, pattern)

\* classify, lines 69-87: the score of one group
GroupScore(group, content_lower, filename_lower) ==
    LET pats == PATTERNS[group]
        RECURSIVE Sum(_)
        Sum(i) == IF i = 0 THEN 0
                  ELSE Sum(i - 1)
                       + TextCount(pats[i], content_lower)
                       + (IF InFilename(pats[i], filename_lower) THEN 2 ELSE 0)
    IN Sum(Len(pats))

\* classify, lines 70-88: matched_keywords of one group: the keywords found
\* in the text in list order, then those found only in the file name
GroupMatches(group, content_lower, filename_lower) ==
    LET kws == KEYWORDS(group)
        pats == PATTERNS[group]
        idx == [i \in 1..Len(kws) |-> i]
        inText == SelectSeq(idx, LAMBDA i : TextCount(pats[i], content_lower) > 0)
        onlyName == SelectSeq(idx, LAMBDA i :
                        /\ InFilename(pats[i], filename_lower)
                        /\ TextCount(pats[i], content_lower) = 0)
        RECURSIVE Names(_)
        Names(is) == IF is = <<>> THEN <<>>
                     ELSE <<kws[Head(is)]>> \o Names(Tail(is))
    IN Names(inText \o onlyName)

\* classify, lines 65-88: the dict scores, one entry per key of KEYWORDS
Scores(content_lower, filename_lower) ==
    [metro |-> GroupScore("metro", content_lower, filename_lower),
     dau_thau |-> GroupScore("dau_thau", content_lower, filename_lower),
     chung_cu |-> GroupScore("chung_cu", content_lower, filename_lower),
     nha_o_xa_hoi |-> GroupScore("nha_o_xa_hoi", content_lower, filename_lower)]

\* MaxKey with the last of several greatest keys winning
MaxKey_LastWins(scores) ==
    LET RECURSIVE Best(_, _)
        Best(i, b) == IF i > Len(GroupOrder) THEN b
                      ELSE IF scores[GroupOrder[i]] >= scores[b]
                           THEN Best(i + 1, GroupOrder[i])
                           ELSE Best(i + 1, b)
    IN Best(2, GroupOrder[1])

\* max(scores, key=scores.get): the first key, in the order of the dict,
\* that holds the greatest value
MaxKey(scores) ==
    LET RECURSIVE Best(_, _)
        Best(i, b) == IF i > Len(GroupOrder) THEN b
                      ELSE IF scores[GroupOrder[i]] > scores[b]
                           THEN Best(i + 1, GroupOrder[i])
                           ELSE Best(i + 1, b)
    IN Best(2, GroupOrder[1])

\* sum(scores.values())
TotalScore(scores) ==
    LET RECURSIVE Sum(_)
        Sum(i) == IF i = 0 THEN 0 ELSE Sum(i - 1) + scores[GroupOrder[i]]
    IN Sum(Len(GroupOrder))

\* max(a, b)
Max(a, b) == IF a >= b THEN a ELSE b

\* Confidence with a share of exactly 0.6 counting as high
Confidence_ShareAtLeast(max_score, total_score) ==
    IF max_score >= 5 /\ 5 * max_score >= 3 * Max(total_score, 1) THEN "cao"
    ELSE IF max_score >= 2 THEN "trung_binh"
    ELSE "thap"

\* Confidence with high needing a score above 5
Confidence_AboveFive(max_score, total_score) ==
    IF max_score > 5 /\ 5 * max_score > 3 * Max(total_score, 1) THEN "cao"
    ELSE IF max_score >= 2 THEN "trung_binh"
    ELSE "thap"

\* classify, lines 101-109.  max_score / max(total_score, 1) > 0.6 is a
\* float comparison; for scores below 10^15 the quotient rounds to a double
\* above that of 0.6 exactly when 5 * max_score > 3 * total
Confidence(max_score, total_score) ==
    IF max_score >= 5 /\ 5 * max_score > 3 * Max(total_score, 1) THEN "cao"
    ELSE IF max_score >= 2 THEN "trung_binh"
    ELSE "thap"

\* sorted(scores.items(), key=lambda x: x[1], reverse=True): a stable
\* insertion of the keys in dict order, a key going after the keys of
\* higher or equal score already placed
SortedGroups(scores) ==
    LET RECURSIVE Insert(_, _)
        Insert(g, sorted) ==
            IF sorted = <<>> THEN <<g>>
            ELSE IF scores[Head(sorted)] >= scores[g]
                 THEN <<Head(sorted)>> \o Insert(g, Tail(sorted))
                 ELSE <<g>> \o sorted
        RECURSIVE Sort(_)
        Sort(i) == IF i = 0 THEN <<>> ELSE Insert(GroupOrder[i], Sort(i - 1))
    IN Sort(Len(GroupOrder))

\* SubGroups without the test score > 0
SubGroups_KeepZero(scores, main_group) ==
    LET RECURSIVE Insert(_, _)
        Insert(g, sorted) ==
            IF sorted = <<>> THEN <<g>>
            ELSE IF scores[Head(sorted)] >= scores[g]
                 THEN <<Head(sorted)>> \o Insert(g, Tail(sorted))
                 ELSE <<g>> \o sorted
        RECURSIVE Sort(_)
        Sort(i) == IF i = 0 THEN <<>> ELSE Insert(GroupOrder[i], Sort(i - 1))
        kept == SelectSeq(SubSeq(Sort(Len(GroupOrder)), 2, 3),
                          LAMBDA g : g # main_group)
        RECURSIVE Items(_)
        Items(gs) ==
            IF gs = <<>> THEN <<>>
            ELSE <<[group |-> Head(gs), folder |-> FOLDER_MAPPING(Head(gs)),
                    score |-> scores[Head(gs)]]>> \o Items(Tail(gs))
    IN Items(kept)

\* classify, lines 112-120
SubGroups(scores, main_group) ==
    LET sorted_groups == SortedGroups(scores)
        next == SubSeq(sorted_groups, 2, 3)
        kept == SelectSeq(next, LAMBDA g : scores[g] > 0 /\ g # main_group)
        RECURSIVE Items(_)
        Items(gs) ==
            IF gs = <<>> THEN <<>>
            ELSE <<[group |-> Head(gs), folder |-> FOLDER_MAPPING(Head(gs)),
                    score |-> scores[Head(gs)]]>> \o Items(Tail(gs))
    IN Items(kept)

\* Result without the branch for scores that are all 0
Result_NoFallback(scores, content_lower, filename_lower) ==
    LET main_group == MaxKey(scores)
    IN [main_group |-> main_group,
        main_folder |-> FOLDER_MAPPING(main_group),
        sub_groups |-> SubGroups(scores, main_group),
        confidence |-> Confidence(scores[main_group], TotalScore(scores)),
        scores |-> scores,
        matched_keywords |-> GroupMatches(main_group, content_lower,
                                          filename_lower)]

\* classify, lines 90-129: the result, given the scores
Result(scores, content_lower, filename_lower) ==
    LET none == \A g \in GROUPS : scores[g] = 0
        main_group == IF none THEN "khac" ELSE MaxKey(scores)
    IN [main_group |-> main_group,
        main_folder |-> IF none THEN "Khac" ELSE FOLDER_MAPPING(main_group),
        sub_groups |-> SubGroups(scores, main_group),
        confidence |-> IF none THEN "thap"
                       ELSE Confidence(scores[main_group], TotalScore(scores)),
        scores |-> scores,
        matched_keywords |-> IF main_group # "khac"
                             THEN GroupMatches(main_group, content_lower,
                                               filename_lower)
                             ELSE <<>>]

\* classify keeping a score only for the groups that have one
classify_SparseScores(text, name) ==
    LET content_lower == Lower(text)
        filename_lower == Lower(name)
        r == Result(Scores(content_lower, filename_lower), content_lower,
                    filename_lower)
    IN [r EXCEPT !.scores = [g \in {h \in GROUPS : r.scores[h] > 0} |->
                                 r.scores[g]]]

\* DocumentClassifier.classify
classify(text, name) ==
    LET content_lower == Lower(text)
        filename_lower == Lower(name)
    IN Result(Scores(content_lower, filename_lower), content_lower,
              filename_lower)

-----------------------------------------------------------------------------
(* config.py *)

\* get_api_key with the environment looked up before the session state
get_api_key_EnvironmentFirst(session, env, file) ==
    IF IsSome(env) /\ NonEmpty(Val(env)) THEN Some(Strip(Val(env)))
    ELSE IF IsSome(session) /\ NonEmpty(Strip(Val(session)))
    THEN Some(Strip(Val(session)))
    ELSE IF IsSome(file) /\ NonEmpty(Val(file)) THEN Some(Strip(Val(file)))
    ELSE None

\* Config.get_api_key: the session state, then the environment, then
\* config.json.  Each layer is None or a string
get_api_key(session, env, file) ==
    IF IsSome(session) /\ NonEmpty(Val(session)) /\ NonEmpty(Strip(Val(session)))
    THEN Some(Strip(Val(session)))
    ELSE IF IsSome(env) /\ NonEmpty(Val(env)) THEN Some(Strip(Val(env)))
    ELSE IF IsSome(file) /\ NonEmpty(Val(file)) THEN Some(Strip(Val(file)))
    ELSE None

-----------------------------------------------------------------------------
(* database.py *)

\* save_document, lines 120-135: issue_date as stored
FormatDate(issue_date) ==
    IF IsSome(issue_date) /\ NonEmpty(Val(issue_date))
    THEN IF \E i \in 1..Len(Val(issue_date)) : Val(issue_date)[i].t = "/"
         THEN LET parts == Split(Val(issue_date), "/")
              IN IF Len(parts) = 3
                 THEN Some(parts[3] \o <<Chunk("-")>> \o parts[2]
                           \o <<Chunk("-")>> \o parts[1])
                 ELSE Some(Join(<<Chunk("-")>>, parts))
         ELSE issue_date
    ELSE None

\* save_document, lines 137-159: the row inserted.  AUTOINCREMENT gives the
\* id after the last one ever given; created_at is the time of the insert,
\* and the clock is taken to advance from one insert to the next
NewRow(doc, id) ==
    [id |-> id,
     filename |-> doc.filename,
     category |-> doc.category,
     document_type |-> doc.document_type,
     issuing_agency |-> doc.issuing_agency,
     issue_date |-> FormatDate(doc.issue_date),
     content_text |-> doc.content_text,
     created_at |-> id]

\* ORDER BY created_at DESC: the rows by falling created_at, rows of one
\* created_at in rowid order
RECURSIVE OrderByCreatedDesc(_)
OrderByCreatedDesc(rows) ==
    IF rows = <<>> THEN <<>>
    ELSE LET rest == OrderByCreatedDesc(SubSeq(rows, 1, Len(rows) - 1))
             last == rows[Len(rows)]
             later == SelectSeq(rest, LAMBDA r : r.created_at > last.created_at)
             notLater == SelectSeq(rest, LAMBDA r : r.created_at <= last.created_at)
             same == SelectSeq(notLater, LAMBDA r : r.created_at = last.created_at)
             before == SelectSeq(notLater, LAMBDA r : r.created_at < last.created_at)
         IN later \o same \o <<last>> \o before

\* the id of the next row without AUTOINCREMENT: one more than the largest
\* id in the table
NextId_LargestRowid(rows, last) ==
    IF rows = <<>> THEN 1
    ELSE 1 + (CHOOSE m \in {rows[i].id : i \in 1..Len(rows)} :
                  \A i \in 1..Len(rows) : rows[i].id <= m)

\* init_database, line 39: id INTEGER PRIMARY KEY AUTOINCREMENT: the id of
\* the next row is one more than the largest id the table ever held
NextId(rows, last) == last + 1

\* delete_document(doc_id): the rows left
delete_document(rows, doc_id) == SelectSeq(rows, LAMBDA r : r.id # doc_id)

\* get_documents_by_category(category)
get_documents_by_category(rows, category) ==
    OrderByCreatedDesc(SelectSeq(rows, LAMBDA r : r.category = category))

\* get_all_documents()
get_all_documents(rows) == OrderByCreatedDesc(rows)

\* get_document(doc_id): the row, or None
get_document(rows, doc_id) ==
    LET found == SelectSeq(rows, LAMBDA r : r.id = doc_id)
    IN IF found = <<>> THEN None ELSE Some(found[1])

-----------------------------------------------------------------------------
(* qa_system.py *)

\* no read of the store fails
NoFail == -1

\* _init_openai: the client after the call.  ctorOk: OpenAI(api_key=...)
\* returns a client rather than raising
InitOpenai(cl, available, api_key, ctorOk) ==
    IF ~available THEN cl
    ELSE IF IsSome(api_key) /\ NonEmpty(Val(api_key))
         THEN (IF ctorOk THEN Some(Val(api_key)) ELSE cl)
         ELSE cl

\* get_documents_by_group, lines 62-73: the documents built from the listed
\* rows that have a text
RECURSIVE LoadDocuments(_, _)
LoadDocuments(rows, docs) ==
    IF docs = <<>> THEN <<>>
    ELSE LET doc == Head(docs)
             full_doc == get_document(rows, doc.id)
         IN (IF /\ IsSome(full_doc)
                /\ IsSome(Val(full_doc).content_text)
                /\ NonEmpty(Val(Val(full_doc).content_text))
             THEN <<[id |-> doc.id,
                     filename |-> doc.filename,
                     content |-> Val(Val(full_doc).content_text),
                     category |-> doc.category,
                     document_type |-> doc.document_type,
                     issuing_agency |-> doc.issuing_agency,
                     issue_date |-> doc.issue_date]>>
             ELSE <<>>)
            \o LoadDocuments(rows, Tail(docs))

\* get_documents_by_group.  failAt = 0: the listing query raises; failAt =
\* k > 0: get_document raises for the k-th listed row; the except clause
\* keeps the documents appended until then
get_documents_by_group(rows, category, failAt) ==
    IF failAt = 0 THEN <<>>
    ELSE LET docs == IF IsSome(category) /\ Val(category) # ""
                     THEN get_documents_by_category(rows, Val(category))
                     ELSE get_all_documents(rows)
         IN IF failAt > 0 /\ failAt <= Len(docs)
            THEN LoadDocuments(rows, SubSeq(docs, 1, failAt - 1))
            ELSE LoadDocuments(rows, docs)

\* search_documents, line 105: the question keywords found in a text,
\* counted with their repetitions
RECURSIVE MatchCount(_, _)
MatchCount(question_keywords, text_lower) ==
    IF question_keywords = <<>> THEN 0
    ELSE (IF Contains(text_lower, Head(question_keywords)) THEN 1 ELSE 0)
         + MatchCount(Tail(question_keywords), text_lower)

\* RelevantParagraphs without the test of the length of the line
RECURSIVE RelevantParagraphs_AnyLength(_, _)
RelevantParagraphs_AnyLength(paragraphs, question_keywords) ==
    IF paragraphs = <<>> THEN <<>>
    ELSE LET para == Head(paragraphs)
             para_lower == Lower(para)
         IN (IF \E i \in 1..Len(question_keywords) :
                    Contains(para_lower, question_keywords[i])
             THEN <<Strip(para)>>
             ELSE <<>>)
            \o RelevantParagraphs_AnyLength(Tail(paragraphs), question_keywords)

\* search_documents, lines 109-115
RECURSIVE RelevantParagraphs(_, _)
RelevantParagraphs(paragraphs, question_keywords) ==
    IF paragraphs = <<>> THEN <<>>
    ELSE LET para == Head(paragraphs)
             para_lower == Lower(para)
         IN (IF /\ \E i \in 1..Len(question_keywords) :
                       Contains(para_lower, question_keywords[i])
                /\ StrLen(Strip(para)) > 20
             THEN <<Strip(para)>>
             ELSE <<>>)
            \o RelevantParagraphs(Tail(paragraphs), question_keywords)

\* doc.get(key) is truthy, for a key holding None or a plain value
Truthy(o) == IsSome(o) /\ Val(o) # ""

\* search_documents, lines 101-134: the results in document order
RECURSIVE ScanDocuments(_, _)
ScanDocuments(documents, question_keywords) ==
    IF documents = <<>> THEN <<>>
    ELSE LET doc == Head(documents)
             matches == MatchCount(question_keywords, Lower(doc.content))
             relevant_paragraphs ==
                 RelevantParagraphs(Split(doc.content, "\n"), question_keywords)
         IN (IF matches > 0 /\ relevant_paragraphs # <<>>
             THEN <<[filename |-> doc.filename,
                     id |-> doc.id,
                     category |-> doc.category,
                     relevant_text |-> FirstN(relevant_paragraphs, 3),
                     match_score |-> matches,
                     full_content |-> doc.content,
                     document_type |-> IF Truthy(doc.document_type)
                                       THEN doc.document_type ELSE None,
                     issuing_agency |-> IF Truthy(doc.issuing_agency)
                                        THEN doc.issuing_agency ELSE None,
                     issue_date |-> IF IsSome(doc.issue_date)
                                       /\ NonEmpty(Val(doc.issue_date))
                                    THEN doc.issue_date ELSE None]>>
             ELSE <<>>)
            \o ScanDocuments(Tail(documents), question_keywords)

\* results.sort(key=lambda x: x['match_score'], reverse=True): stable
RECURSIVE SortByScore(_)
SortByScore(results) ==
    IF results = <<>> THEN <<>>
    ELSE LET rest == SortByScore(SubSeq(results, 1, Len(results) - 1))
             last == results[Len(results)]
         IN SelectSeq(rest, LAMBDA r : r.match_score >= last.match_score)
            \o <<last>>
            \o SelectSeq(rest, LAMBDA r : r.match_score < last.match_score)

\* search_documents that looks at every document
search_documents_NoCap(question, documents, max_docs) ==
    IF documents = <<>> THEN <<>>
    ELSE SortByScore(ScanDocuments(documents, SplitWords(Lower(question))))

\* search_documents
search_documents(question, documents, max_docs) ==
    IF documents = <<>> THEN <<>>
    ELSE SortByScore(ScanDocuments(FirstN(documents, max_docs),
                                   SplitWords(Lower(question))))

\* what the chat completion call did: it raised, or it returned a response
\* whose message content is None or a string
NoResponse == [kind |-> "none", content |-> None]

\* the call raised: no key or a bad one, network, quota
Raises == [kind |-> "raise", content |-> None]

Returns(text) == [kind |-> "ok", content |-> text]

\* _answer_with_openai without the try: an exception of the call goes up
AnswerWithOpenai_NoTry(cl, context_docs, response) ==
    IF ~IsSome(cl) \/ context_docs = <<>>
    THEN [raised |-> FALSE, value |-> None]
    ELSE IF response.kind = "ok" /\ IsSome(response.content)
         THEN [raised |-> FALSE, value |-> Some(Strip(Val(response.content)))]
         ELSE [raised |-> TRUE, value |-> None]

\* _answer_with_openai: the answer, or None; raised: an exception left the
\* method.  The call raising, and content None (None.strip()), end in the
\* except clause
AnswerWithOpenai(cl, context_docs, response) ==
    IF ~IsSome(cl) \/ context_docs = <<>>
    THEN [raised |-> FALSE, value |-> None]
    ELSE IF response.kind = "ok" /\ IsSome(response.content)
         THEN [raised |-> FALSE, value |-> Some(Strip(Val(response.content)))]
         ELSE [raised |-> FALSE, value |-> None]

\* _answer_with_openai, line 158
max_context_length == 10000

\* _answer_with_openai, lines 160-170 without the cut of the entry that
\* crosses the limit
RECURSIVE ContextParts_WholeEntries(_, _)
ContextParts_WholeEntries(docs, total_length) ==
    IF docs = <<>> THEN <<>>
    ELSE LET doc == Head(docs)
             text == doc.full_content
         IN IF total_length + StrLen(text) > max_context_length
            THEN <<[filename |-> doc.filename, content |-> text]>>
            ELSE <<[filename |-> doc.filename, content |-> text]>>
                 \o ContextParts_WholeEntries(Tail(docs),
                                              total_length + StrLen(text))

\* _answer_with_openai, lines 160-170: context_parts, an entry being the
\* file name of a document and the text that follows the line of the name
RECURSIVE ContextParts(_, _)
ContextParts(docs, total_length) ==
    IF docs = <<>> THEN <<>>
    ELSE LET doc == Head(docs)
             text == doc.full_content
         IN IF total_length + StrLen(text) > max_context_length
            THEN <<[filename |-> doc.filename,
                    content |-> Take(text, max_context_length - total_length)]>>
            ELSE <<[filename |-> doc.filename, content |-> text]>>
                 \o ContextParts(Tail(docs), total_length + StrLen(text))

\* _answer_with_openai, lines 156-172: the context of the request
Context(context_docs) == ContextParts(FirstN(context_docs, 3), 0)

\* answer_question, lines 231-240 and 253-259: the sources of the first
\* three results; the model-assisted answer names the issuing agency too
RECURSIVE Sources(_, _)
Sources(results, withAgency) ==
    IF results = <<>> THEN <<>>
    ELSE <<[filename |-> Head(results).filename,
            id |-> IF Head(results).id # 0 THEN Some(Head(results).id) ELSE None,
            document_type |-> Head(results).document_type,
            issuing_agency |-> IF withAgency THEN Head(results).issuing_agency
                               ELSE None]>>
         \o Sources(Tail(results), withAgency)

\* answer_question, lines 253-263: the relevant texts of the results in
\* order, each kept once
RECURSIVE AnswerParts(_, _)
AnswerParts(texts, answer_parts) ==
    IF texts = <<>> THEN answer_parts
    ELSE AnswerParts(Tail(texts),
                     IF \E i \in 1..Len(answer_parts) :
                            answer_parts[i] = Head(texts)
                     THEN answer_parts
                     ELSE Append(answer_parts, Head(texts)))

\* all relevant_text lists of the results, one after the other
RECURSIVE RelevantTexts(_)
RelevantTexts(results) ==
    IF results = <<>> THEN <<>>
    ELSE Head(results).relevant_text \o RelevantTexts(Tail(results))

\* answer_question, lines 219-225
NoInformation ==
    [answer |-> Str(<<"Tai lieu hien co chua cung cap thong tin nay.">>),
     sources |-> <<>>, confidence |-> "low", method |-> "simple",
     raised |-> FALSE]

\* SimpleAnswer that keeps a line each time a result gives it
SimpleAnswer_NoDedupe(results) ==
    [answer |-> Join(Str(<<"\n", "\n">>),
                     FirstN(RelevantTexts(FirstN(results, 3)), 3)),
     sources |-> Sources(FirstN(results, 3), FALSE),
     confidence |-> IF Len(results) >= 2 THEN "high" ELSE "medium",
     method |-> "simple",
     raised |-> FALSE]

\* answer_question, lines 249-272
SimpleAnswer(results) ==
    [answer |-> Join(Str(<<"\n", "\n">>),
                     FirstN(AnswerParts(RelevantTexts(FirstN(results, 3)), <<>>), 3)),
     sources |-> Sources(FirstN(results, 3), FALSE),
     confidence |-> IF Len(results) >= 2 THEN "high" ELSE "medium",
     method |-> "simple",
     raised |-> FALSE]

\* answer_question that trusts use_openai alone and takes the response as it
\* comes
AnswerFrom_NoClientCheck(results, use_openai, cl, response) ==
    IF results = <<>> THEN NoInformation
    ELSE IF use_openai /\ response.kind = "ok" /\ IsSome(response.content)
         THEN [answer |-> Strip(Val(response.content)),
               sources |-> Sources(FirstN(results, 3), TRUE),
               confidence |-> "high", method |-> "openai", raised |-> FALSE]
         ELSE SimpleAnswer(results)

\* answer_question that asks the model before looking at the results
AnswerFrom_ModelFirst(results, use_openai, cl, response) ==
    IF use_openai /\ IsSome(cl) /\ response.kind = "ok"
       /\ IsSome(response.content) /\ NonEmpty(Strip(Val(response.content)))
    THEN [answer |-> Strip(Val(response.content)),
          sources |-> Sources(FirstN(results, 3), TRUE),
          confidence |-> "high", method |-> "openai", raised |-> FALSE]
    ELSE IF results = <<>> THEN NoInformation
    ELSE SimpleAnswer(results)

\* answer_question, lines 219-272: the answer, given the search results
AnswerFrom(results, use_openai, cl, response) ==
    IF results = <<>> THEN NoInformation
    ELSE LET openai_answer ==
                 IF use_openai /\ IsSome(cl)
                 THEN AnswerWithOpenai(cl, results, response)
                 ELSE [raised |-> FALSE, value |-> None]
         IN IF openai_answer.raised
            THEN [answer |-> <<>>, sources |-> <<>>, confidence |-> "",
                  method |-> "", raised |-> TRUE]
            ELSE IF IsSome(openai_answer.value)
                    /\ NonEmpty(Val(openai_answer.value))
                 THEN [answer |-> Val(openai_answer.value),
                       sources |-> Sources(FirstN(results, 3), TRUE),
                       confidence |-> "high", method |-> "openai",
                       raised |-> FALSE]
                 ELSE SimpleAnswer(results)

\* the default of max_docs that answer_question passes
MAX_DOCS == 5

\* answer_question(question, category, use_openai)
answer_question(question, category, use_openai, cl, rows, failAt, response) ==
    AnswerFrom(search_documents(question,
                                get_documents_by_group(rows, category, failAt),
                                MAX_DOCS),
               use_openai, cl, response)

\* answer_question reaches the chat completion call
CallsModel(question, category, use_openai, cl, rows, failAt) ==
    /\ use_openai
    /\ IsSome(cl)
    /\ search_documents(question,
                        get_documents_by_group(rows, category, failAt),
                        MAX_DOCS) # <<>>

-----------------------------------------------------------------------------
(* analyzer.py *)

\* group_names.get(main_group, 'Khac')
GroupName(main_group) ==
    CASE main_group = "metro" -> Str(<<"Metro/Duong sat do thi">>)
      [] main_group = "dau_thau" -> Str(<<"Dau thau/Khu giao duc/TOD">>)
      [] main_group = "chung_cu" -> Str(<<"Chung cu">>)
      [] main_group = "nha_o_xa_hoi" -> Str(<<"Nha o xa hoi">>)
      [] OTHER -> Str(<<"Khac">>)

\* f"Tai lieu thuoc nhom: {group_name}. "
SummaryPrefix(cls) ==
    Str(<<"Tai lieu thuoc nhom: ">>) \o GroupName(cls.main_group)
    \o Str(<<". ">>)

\* create_executive_summary_with_openai: the summary, or None.  The client
\* constructor and the call are inside the try; the call raising, and
\* content None (None.strip()), end in the except clause
create_executive_summary_with_openai(text, cls, available, api_key, response) ==
    IF ~available THEN None
    ELSE IF ~(IsSome(api_key) /\ NonEmpty(Val(api_key))) THEN None
    ELSE IF response.kind = "ok" /\ IsSome(response.content)
         THEN Some(SummaryPrefix(cls) \o Strip(Val(response.content)))
         ELSE None

\* create_executive_summary, line 128: the stripped lines longer than 50
RECURSIVE Paragraphs(_)
Paragraphs(lines) ==
    IF lines = <<>> THEN <<>>
    ELSE (IF StrLen(Strip(Head(lines))) > 50 THEN <<Strip(Head(lines))>>
          ELSE <<>>)
         \o Paragraphs(Tail(lines))

\* create_executive_summary, lines 128-154: the summary made from the text
FallbackSummary(text, cls) ==
    LET found == Paragraphs(Split(text, "\n"))
        paragraphs == IF found = <<>>
                      THEN <<IF StrLen(text) > 500 THEN Take(text, 500)
                             ELSE text>>
                      ELSE found
        summary_text == Join(Str(<<" ">>), FirstN(paragraphs, 2))
    IN SummaryPrefix(cls)
       \o (IF StrLen(summary_text) > 400
           THEN Take(summary_text, 400) \o Str(<<"...">>)
           ELSE summary_text)

\* create_executive_summary
create_executive_summary(text, cls, use_openai, available, api_key, response) ==
    LET openai_summary ==
            IF use_openai
            THEN create_executive_summary_with_openai(text, cls, available,
                                                      api_key, response)
            ELSE None
    IN IF IsSome(openai_summary) /\ NonEmpty(Val(openai_summary))
       THEN Val(openai_summary)
       ELSE FallbackSummary(text, cls)

\* a piece that begins with a digit
StartsWithDigit(chunk) ==
    chunk.t \in {"15/2025", "4", "19", "02", "2025", "1", "2phap_ly",
                 "3dau_thau"}

\* the text of a piece up to its first white space
HeadWord(tag) ==
    CASE tag = "nghi dinh so" -> "nghi"
      [] tag = "quyet dinh so" -> "quyet"
      [] tag = "thong tu so" -> "thong"
      [] tag = "du an" -> "du"
      [] tag = "chung cu" -> "chung"
      [] tag = "bao cao" -> "bao"
      [] OTHER -> tag

\* the index after the white space that starts at index i
RECURSIVE SkipSpace(_, _)
SkipSpace(text, i) ==
    IF i <= Len(text) /\ IsSpace(text[i]) THEN SkipSpace(text, i + 1) ELSE i

\* [^\s]* from index j on, after the characters word: the characters up to
\* the next white space, which may lie inside a piece, and the index of the
\* first piece the match has not touched
RECURSIVE CaptureWord(_, _, _)
CaptureWord(text, j, word) ==
    IF j > Len(text) \/ IsSpace(text[j]) THEN [word |-> word, next |-> j]
    ELSE IF HeadWord(text[j].t) # text[j].t
         THEN [word |-> word \o HeadWord(text[j].t), next |-> j + 1]
         ELSE CaptureWord(text, j + 1, word \o text[j].t)

\* re.findall(head \s* (\d+[^\s]*), text) from index i on: the numbers
\* captured, left to right, the scan resuming after each match
RECURSIVE FindNumbers(_, _, _)
FindNumbers(text, head, i) ==
    IF i > Len(text) THEN <<>>
    ELSE LET j == SkipSpace(text, i + 1)
         IN IF text[i].t = head /\ j <= Len(text) /\ StartsWithDigit(text[j])
            THEN LET number == CaptureWord(text, j, "")
                 IN <<number.word>> \o FindNumbers(text, head, number.next)
            ELSE FindNumbers(text, head, i + 1)

\* extract_keywords_and_tags, lines 178-187: what the loop appends to
\* keywords for one pattern
RECURSIVE Numbered(_, _)
Numbered(prefix, matches) ==
    IF matches = <<>> THEN <<>>
    ELSE <<prefix \o " " \o Head(matches)>> \o Numbered(prefix, Tail(matches))

\* extract_keywords_and_tags, lines 178-187: all the loop appends
AppendedKeywords(content_lower) ==
    Numbered("ND", FirstN(FindNumbers(content_lower, "nghi dinh so", 1), 2))
    \o Numbered("QD", FirstN(FindNumbers(content_lower, "quyet dinh so", 1), 2))
    \o Numbered("TT", FirstN(FindNumbers(content_lower, "thong tu so", 1), 2))

\* list(dict.fromkeys(list)): each element once, in the order of its first
\* occurrence
RECURSIVE Dedupe(_, _)
Dedupe(list, kept) ==
    IF list = <<>> THEN kept
    ELSE Dedupe(Tail(list),
                IF \E i \in 1..Len(kept) : kept[i] = Head(list) THEN kept
                ELSE Append(kept, Head(list)))

\* extract_keywords_and_tags: the list classification['matched_keywords']
\* after the call.  keywords is that very list, and the loop appends to it
MatchedKeywordsAfter(text, cls) ==
    cls.matched_keywords \o AppendedKeywords(Lower(text))

\* extract_keywords_and_tags: the keywords returned
Keywords(text, cls) == FirstN(Dedupe(MatchedKeywordsAfter(text, cls), <<>>), 10)

\* DocumentAnalyzer.COMMON_TAGS.  The first seven but 'hop_dong' and the
\* tags from 'quy_hoach' to 'xay_dung' are written without diacritics in the
\* source, the others with them
COMMON_TAGS ==
    <<"phap_ly", "dau_thau", "FS", "Pre-FS", "FEED", "PPP", "TOD",
      "quy_hoach", "von_dau_tu", "thiet_ke", "xay_dung", "van_hanh",
      "hop_dong", "nghi_dinh", "nghi_quyet", "thong_tu", "quyet_dinh",
      "bao_cao", "thuyet_minh", "ke_hoach", "du_an">>

\* tag.replace('_', ' ').  A piece named ascii:x is the text x typed
\* without diacritics; every other piece stands for the accented text
Spaced(tag) ==
    CASE tag = "phap_ly" -> "ascii:phap ly"
      [] tag = "dau_thau" -> "ascii:dau thau"
      [] tag = "quy_hoach" -> "ascii:quy hoach"
      [] tag = "von_dau_tu" -> "ascii:von dau tu"
      [] tag = "thiet_ke" -> "ascii:thiet ke"
      [] tag = "xay_dung" -> "ascii:xay dung"
      [] tag = "hop_dong" -> "ascii:hop dong"
      [] tag = "van_hanh" -> "van hanh"
      [] tag = "nghi_dinh" -> "nghi dinh"
      [] tag = "nghi_quyet" -> "nghi quyet"
      [] tag = "thong_tu" -> "thong tu"
      [] tag = "quyet_dinh" -> "quyet dinh"
      [] tag = "bao_cao" -> "bao cao"
      [] tag = "thuyet_minh" -> "thuyet minh"
      [] tag = "ke_hoach" -> "ke hoach"
      [] tag = "du_an" -> "du an"
      [] OTHER -> tag

\* tag.replace('_', '')
Joined(tag) ==
    CASE tag = "phap_ly" -> "ascii:phaply"
      [] tag = "dau_thau" -> "ascii:dauthau"
      [] tag = "quy_hoach" -> "ascii:quyhoach"
      [] tag = "von_dau_tu" -> "ascii:vondautu"
      [] tag = "thiet_ke" -> "ascii:thietke"
      [] tag = "xay_dung" -> "ascii:xaydung"
      [] tag = "hop_dong" -> "ascii:hopdong"
      [] tag = "van_hanh" -> "vanhanh"
      [] tag = "nghi_dinh" -> "nghidinh"
      [] tag = "nghi_quyet" -> "nghiquyet"
      [] tag = "thong_tu" -> "thongtu"
      [] tag = "quyet_dinh" -> "quyetdinh"
      [] tag = "bao_cao" -> "baocao"
      [] tag = "thuyet_minh" -> "thuyetminh"
      [] tag = "ke_hoach" -> "kehoach"
      [] tag = "du_an" -> "duan"
      [] OTHER -> tag

\* extract_keywords_and_tags, lines 167-169: the tags found in the text.
\* The text is lowercased and the tag is not
FoundTags(content_lower) ==
    LET pieces == WordPieces(content_lower)
    IN SelectSeq(COMMON_TAGS,
                 LAMBDA tag : \/ Contains(pieces, <<Chunk(Spaced(tag))>>)
                              \/ Contains(pieces, <<Chunk(Joined(tag))>>))

\* extract_keywords_and_tags, lines 162-173 and 190: the tags returned
Tags(text, cls) ==
    Dedupe(FoundTags(Lower(text))
           \o (IF cls.main_group # "" THEN <<cls.main_group>> ELSE <<>>),
           <<>>)

\* assess_security_level, lines 239-242
sensitive_keywords ==
    <<Str(<<"mat">>), Str(<<"bao", " ", "mat">>), Str(<<"bi", " ", "mat">>),
      Str(<<"noi bo">>), Str(<<"khong", " ", "cong bo">>),
      Str(<<"confidential">>), Str(<<"internal">>), Str(<<"secret">>)>>

\* assess_security_level, lines 245-247
public_keywords ==
    <<Str(<<"cong khai">>), Str(<<"pho bien">>), Str(<<"thong bao">>),
      Str(<<"cong bo">>)>>

\* any(keyword in text for keyword in keywords)
AnyIn(keywords, text) ==
    \E i \in 1..Len(keywords) : Contains(text, keywords[i])

\* assess_security_level with the public keywords looked for first
assess_security_level_PublicFirst(text, name) ==
    LET content_lower == WordPieces(Lower(text))
        filename_lower == WordPieces(Lower(name))
    IN IF AnyIn(public_keywords, content_lower) THEN "cong_khai"
       ELSE IF \/ AnyIn(sensitive_keywords, content_lower)
               \/ AnyIn(sensitive_keywords, filename_lower)
            THEN "nhay_cam"
       ELSE "noi_bo"

\* DocumentAnalyzer.assess_security_level
assess_security_level(text, name) ==
    LET content_lower == WordPieces(Lower(text))
        filename_lower == WordPieces(Lower(name))
    IN IF \/ AnyIn(sensitive_keywords, content_lower)
          \/ AnyIn(sensitive_keywords, filename_lower)
       THEN "nhay_cam"
       ELSE IF \/ Contains(content_lower, Str(<<"noi bo">>))
               \/ Contains(content_lower, Str(<<"du thao">>))
            THEN "noi_bo"
       ELSE IF AnyIn(public_keywords, content_lower) THEN "cong_khai"
       ELSE "noi_bo"

\* suggest_actions, lines 271-292: group_actions.  The actions are named
\* by the group and their place in its list
group_actions(main_group) ==
    IF main_group \in GROUPS
    THEN <<main_group \o ":1", main_group \o ":2", main_group \o ":3">>
    ELSE <<>>

\* the words captured after 'so' that hold a given word: a number of a text
\* is a piece that begins with a digit, or the pieces '1' and 'fs',
\* followed by white space
NumbersHolding(word) ==
    CASE word = "fs" -> {"1fs"}
      [] word = "phap_ly" -> {"2phap_ly"}
      [] word = "dau_thau" -> {"3dau_thau"}
      [] OTHER -> {}

\* word in k.lower(), for a keyword k of the classifier or of lines 178-187
KeywordHolds(k, word) ==
    \/ \E prefix \in {"ND", "QD", "TT"} :
           \E number \in NumbersHolding(word) : k = prefix \o " " \o number
    \/ CASE word = "fs" -> k \in {"FS", "Pre-FS"}
          [] word = "feed" -> k = "FEED"
          [] word = "phap ly" -> k = "phap ly chung cu"
          [] word = "dau thau" -> k \in {"dau thau", "dau thau rong rai"}
          [] OTHER -> FALSE

\* any(a in k or b in k for k in keyword_lower)
AnyHolds(keywords, a, b) ==
    \E i \in 1..Len(keywords) :
        KeywordHolds(keywords[i], a) \/ KeywordHolds(keywords[i], b)

\* suggest_actions, lines 294-308: the suggestions before the duplicates
\* are removed
Suggested(cls, keywords) ==
    group_actions(cls.main_group)
    \o (IF AnyHolds(keywords, "fs", "feed")
        THEN <<"Kiem tra day du ho so FS/FEED">> ELSE <<>>)
    \o (IF AnyHolds(keywords, "phap_ly", "phap ly")
        THEN <<"Ra soat tinh phap ly cua tai lieu">> ELSE <<>>)
    \o (IF AnyHolds(keywords, "dau_thau", "dau thau")
        THEN <<"Cap nhat tien do dau thau">> ELSE <<>>)

\* suggest_actions without the limit of 5
suggest_actions_NoLimit(cls, keywords) == Dedupe(Suggested(cls, keywords), <<>>)

\* DocumentAnalyzer.suggest_actions
suggest_actions(cls, keywords) ==
    FirstN(Dedupe(Suggested(cls, keywords), <<>>), 5)

\* DocumentAnalyzer.analyze: the result but for projects and locations
analyze(text, name, cls, use_openai, available, api_key, response) ==
    [executive_summary |->
         create_executive_summary(text, cls, use_openai, available, api_key,
                                  response),
     keywords |-> Keywords(text, cls),
     tags |-> Tags(text, cls),
     security_level |-> assess_security_level(text, name),
     action_suggestions |-> suggest_actions(cls, Keywords(text, cls))]

-----------------------------------------------------------------------------
(* metadata_extractor.py: the date *)

\* the characters of a piece that holds digits, for the patterns that read
\* a text digit by digit
Spell(tag) ==
    CASE tag = "19" -> <<"1", "9">>
      [] tag = "02" -> <<"0", "2">>
      [] tag = "2025" -> <<"2", "0", "2", "5">>
      [] tag = "15/2025" -> <<"1", "5", "/", "2", "0", "2", "5">>
      [] OTHER -> <<tag>>

\* a string with its pieces of digits spelt out, one character a piece; of
\* a piece that a slice has cut, the characters that are left
RECURSIVE Chars(_)
Chars(s) ==
    IF s = <<>> THEN <<>>
    ELSE LET c == Head(s)
             letters == Spell(c.t)
         IN (IF Len(letters) > 1
             THEN Str(SubSeq(letters, 1, c.n))
             ELSE <<c>>) \o Chars(Tail(s))

DIGITS == {"0", "1", "2", "3", "4", "5", "6", "7", "8", "9"}

\* \d at index i
DigitAt(text, i) == i <= Len(text) /\ text[i].t \in DIGITS

\* [/-] at index i
SepAt(text, i) == i <= Len(text) /\ text[i].t \in {"/", "-"}

\* \s at index i
SpaceAt(text, i) == i <= Len(text) /\ IsSpace(text[i])

\* a whole word at index i
WordAt(text, i, word) == i <= Len(text) /\ text[i] = Chunk(word)

\* what the pattern has after a group of digits
StopAt(text, i, stop) ==
    CASE stop = "sep" -> SepAt(text, i)
      [] stop = "space" -> SpaceAt(text, i)
      [] OTHER -> TRUE

\* (\d{1,2}) at index i with stop after it: the number of digits matched,
\* two if two can be, 0 if the group does not match
Digits12(text, i, stop) ==
    IF DigitAt(text, i) /\ DigitAt(text, i + 1) /\ StopAt(text, i + 2, stop)
    THEN 2
    ELSE IF DigitAt(text, i) /\ StopAt(text, i + 1, stop) THEN 1
    ELSE 0

\* (\d{4}) at index i
Year4(text, i) == \A k \in 0..3 : DigitAt(text, i + k)

\* (\d{1,2})[/-](\d{1,2})[/-](\d{4}) at index i: the groups, or None
NumericDMY(text, i) ==
    LET d == Digits12(text, i, "sep")
        j == i + d + 1
        m == Digits12(text, j, "sep")
        k == j + m + 1
    IN IF d > 0 /\ m > 0 /\ Year4(text, k)
       THEN Some(<<SubSeq(text, i, i + d - 1), SubSeq(text, j, j + m - 1),
                   SubSeq(text, k, k + 3)>>)
       ELSE None

\* (\d{4})[/-](\d{1,2})[/-](\d{1,2}) at index i
NumericYMD(text, i) ==
    LET j == i + 5
        m == Digits12(text, j, "sep")
        k == j + m + 1
        d == Digits12(text, k, "any")
    IN IF Year4(text, i) /\ SepAt(text, i + 4) /\ m > 0 /\ d > 0
       THEN Some(<<SubSeq(text, i, i + 3), SubSeq(text, j, j + m - 1),
                   SubSeq(text, k, k + d - 1)>>)
       ELSE None

\* (\d{1,2})\s+tháng\s+(\d{1,2})\s+năm\s+(\d{4}) at index i
VerboseDMY(text, i) ==
    LET d == Digits12(text, i, "space")
        a == SkipSpace(text, i + d)
        b == SkipSpace(text, a + 1)
        m == Digits12(text, b, "space")
        c == SkipSpace(text, b + m)
        y == SkipSpace(text, c + 1)
    IN IF /\ d > 0
          /\ WordAt(text, a, "thang") /\ SpaceAt(text, a + 1)
          /\ m > 0
          /\ WordAt(text, c, "nam") /\ SpaceAt(text, c + 1)
          /\ Year4(text, y)
       THEN Some(<<SubSeq(text, i, i + d - 1), SubSeq(text, b, b + m - 1),
                   SubSeq(text, y, y + 3)>>)
       ELSE None

\* (?:ban\s+hành|ngày)\s+ at index i: the index after it, 0 if it does not
\* match
AnchorEnd(text, i) ==
    LET h == SkipSpace(text, i + 1)
    IN IF WordAt(text, i, "ngay") /\ SpaceAt(text, i + 1) THEN h
       ELSE IF /\ WordAt(text, i, "ban") /\ SpaceAt(text, i + 1)
               /\ WordAt(text, h, "hanh") /\ SpaceAt(text, h + 1)
            THEN SkipSpace(text, h + 1)
       ELSE 0

\* the patterns of _extract_issue_date, in the order of their lists
PRIORITY_PATTERNS == <<"anchored numeric", "anchored verbose">>

DATE_PATTERNS == <<"numeric dmy", "numeric ymd", "verbose", "ngay verbose">>

\* re.match of a pattern at index i of the lowered text: the groups, or None
MatchPattern(pattern, text, i) ==
    CASE pattern = "anchored numeric" ->
             IF AnchorEnd(text, i) > 0
             THEN NumericDMY(text, AnchorEnd(text, i)) ELSE None
      [] pattern = "anchored verbose" ->
             IF AnchorEnd(text, i) > 0
             THEN VerboseDMY(text, AnchorEnd(text, i)) ELSE None
      [] pattern = "numeric dmy" -> NumericDMY(text, i)
      [] pattern = "numeric ymd" -> NumericYMD(text, i)
      [] pattern = "verbose" -> VerboseDMY(text, i)
      [] pattern = "ngay verbose" ->
             IF WordAt(text, i, "ngay") /\ SpaceAt(text, i + 1)
             THEN VerboseDMY(text, SkipSpace(text, i + 1)) ELSE None

\* the indexes at which a pattern matches
MatchStarts(pattern, text) ==
    {i \in 1..Len(text) : IsSome(MatchPattern(pattern, text, i))}

\* re.findall(pattern, preview, re.IGNORECASE)[0:1]: the groups of the
\* leftmost match, or None
FirstMatch(pattern, text) ==
    LET starts == MatchStarts(pattern, text)
    IN IF starts = {} THEN None
       ELSE MatchPattern(pattern, text,
                         CHOOSE i \in starts : \A j \in starts : i <= j)

\* s.zfill(2)
Zfill2(s) == IF Len(s) < 2 THEN <<Chunk("0")>> \o s ELSE s

\* f"{day.zfill(2)}/{month.zfill(2)}/{year}"
DateString(day, month, year) ==
    Zfill2(day) \o <<Chunk("/")>> \o Zfill2(month) \o <<Chunk("/")>> \o year

\* the date of a match written in the order of its groups
Normalized_AsWritten(match) == DateString(match[1], match[2], match[3])

\* lines 168-175: the date of a match; the year is the third group if that
\* has four digits, the first group otherwise
Normalized(match) ==
    IF Len(match[3]) = 4 THEN DateString(match[1], match[2], match[3])
    ELSE DateString(match[3], match[2], match[1])

\* the loops of lines 141-149 and 163-175: the date of the first match of
\* the first pattern that has one
RECURSIVE FirstPatternDate(_, _)
FirstPatternDate(patterns, preview) ==
    IF patterns = <<>> THEN None
    ELSE LET match == FirstMatch(Head(patterns), preview)
         IN IF IsSome(match) THEN Some(Normalized(Val(match)))
            ELSE FirstPatternDate(Tail(patterns), preview)

\* the leftmost match of all the patterns decides, whatever its tier
extract_issue_date_Leftmost(text) ==
    LET preview == Lower(Chars(Take(text, 1500)))
        all == PRIORITY_PATTERNS \o DATE_PATTERNS
        hits == {i \in 1..Len(preview) :
                     \E k \in 1..Len(all) :
                         IsSome(MatchPattern(all[k], preview, i))}
        first == CHOOSE i \in hits : \A j \in hits : i <= j
        k == CHOOSE k \in 1..Len(all) :
                 /\ IsSome(MatchPattern(all[k], preview, first))
                 /\ \A l \in 1..(k - 1) :
                        ~IsSome(MatchPattern(all[l], preview, first))
    IN IF hits = {} THEN None
       ELSE Some(Normalized(Val(MatchPattern(all[k], preview, first))))

\* MetadataExtractor._extract_issue_date(content, content_lower)
extract_issue_date(text) ==
    LET preview == Lower(Chars(Take(text, 1500)))
        anchored == FirstPatternDate(PRIORITY_PATTERNS, preview)
    IN IF IsSome(anchored) THEN anchored
       ELSE FirstPatternDate(DATE_PATTERNS, preview)

-----------------------------------------------------------------------------
(* metadata_extractor.py: the type of the document *)

DOCUMENT_TYPES ==
    <<"Nghi dinh", "Nghi quyet", "Thong tu", "Luat", "Quyet dinh", "Chi thi",
      "Thong bao", "Cong van", "Quy che", "Quy dinh">>

\* the text as the patterns of a type see it, under re.IGNORECASE
TypePreview(s) == Lower(Chars(WordPieces(s)))

\* lines 79-83: the patterns of one type, in the order of the list
TYPE_PATTERNS == <<"type so number", "type number", "type word">>

\* re.match of a pattern of doc_type at index i of the lowered text
TypePatternAt(pattern, text, i, doc_type) ==
    LET j == SkipSpace(text, i + 1)
    IN /\ WordAt(text, i, LowerTag(doc_type))
       /\ SpaceAt(text, i + 1)
       /\ CASE pattern = "type so number" ->
                   /\ WordAt(text, j, "so")
                   /\ SpaceAt(text, j + 1)
                   /\ DigitAt(text, SkipSpace(text, j + 1))
            [] pattern = "type number" -> DigitAt(text, j)
            [] pattern = "type word" -> j <= Len(text)

\* re.search(pattern, preview, re.IGNORECASE) for some pattern of doc_type
TypeFound(text, doc_type) ==
    \E k \in 1..Len(TYPE_PATTERNS) :
        \E i \in 1..Len(text) :
            TypePatternAt(TYPE_PATTERNS[k], text, i, doc_type)

\* doc_type.lower() in filename_lower
TypeInName(name, doc_type) ==
    Contains(TypePreview(name), <<Chunk(LowerTag(doc_type))>>)

\* the first element of a list that has a property, or None
RECURSIVE FirstThat(_, _)
FirstThat(list, holds) ==
    IF list = <<>> THEN None
    ELSE IF holds[Head(list)] THEN Some(Head(list))
    ELSE FirstThat(Tail(list), holds)

\* the type whose name stands first in the text decides
extract_document_type_Leftmost(text, name) ==
    LET preview == TypePreview(Take(text, 1000))
        hits == {i \in 1..Len(preview) :
                     \E k \in 1..Len(DOCUMENT_TYPES) :
                         TypePatternAt("type word", preview, i,
                                       DOCUMENT_TYPES[k])}
        first == CHOOSE i \in hits : \A j \in hits : i <= j
        inText ==
            IF hits = {} THEN None
            ELSE Some(CHOOSE doc_type \in
                          {DOCUMENT_TYPES[k] : k \in 1..Len(DOCUMENT_TYPES)} :
                          TypePatternAt("type word", preview, first,
                                        doc_type))
    IN IF IsSome(inText) THEN inText
       ELSE FirstThat(DOCUMENT_TYPES,
                      [doc_type \in {DOCUMENT_TYPES[k] :
                                         k \in 1..Len(DOCUMENT_TYPES)} |->
                           TypeInName(name, doc_type)])

\* MetadataExtractor._extract_document_type(content, content_lower,
\* filename)
extract_document_type(text, name) ==
    LET preview == TypePreview(Take(text, 1000))
        types == {DOCUMENT_TYPES[k] : k \in 1..Len(DOCUMENT_TYPES)}
        inText == FirstThat(DOCUMENT_TYPES,
                            [doc_type \in types |->
                                 TypeFound(preview, doc_type)])
    IN IF IsSome(inText) THEN inText
       ELSE FirstThat(DOCUMENT_TYPES,
                      [doc_type \in types |-> TypeInName(name, doc_type)])

-----------------------------------------------------------------------------
(* metadata_extractor.py: the issuing agency *)

\* AGENCY_PATTERNS: the words of each pattern, \s+ between them, and
\* whether \s+[^,\n]+ follows.  "so'" is the word 'sở'
AGENCY_PATTERNS ==
    << [words |-> <<"chinh", "phu">>, rest |-> FALSE],
       [words |-> <<"quoc", "hoi">>, rest |-> FALSE],
       [words |-> <<"bo">>, rest |-> TRUE],
       [words |-> <<"uy", "ban">>, rest |-> TRUE],
       [words |-> <<"ban">>, rest |-> TRUE],
       [words |-> <<"so'">>, rest |-> TRUE],
       [words |-> <<"ubnd">>, rest |-> TRUE],
       [words |-> <<"hdnd">>, rest |-> TRUE],
       [words |-> <<"thu", "tuong">>, rest |-> FALSE],
       [words |-> <<"chu", "tich">>, rest |-> FALSE] >>

\* the words of a pattern at index i of the lowered text: the index after
\* the last word, 0 if they do not match
RECURSIVE WordsEnd(_, _, _)
WordsEnd(low, i, words) ==
    IF ~WordAt(low, i, Head(words)) THEN 0
    ELSE IF Len(words) = 1 THEN i + 1
    ELSE IF SpaceAt(low, i + 1)
         THEN WordsEnd(low, SkipSpace(low, i + 1), Tail(words))
    ELSE 0

\* the index of the last piece of a run of characters that are none of
\* stops, from index i on
RECURSIVE RunEnd(_, _, _)
RunEnd(text, i, stops) ==
    IF i + 1 <= Len(text) /\ text[i + 1].t \notin stops
    THEN RunEnd(text, i + 1, stops) ELSE i

\* \s+[^,\n]+ at index e: the index of the last piece matched, 0 if there
\* is no match.  \s+ takes all the white space if a character other than a
\* comma follows it; failing that it leaves its last space to [^,\n]+
RestEnd(text, e) ==
    LET s == SkipSpace(text, e)
        spaces == {p \in (e + 1)..(s - 1) : text[p].t # "\n"}
    IN IF s = e THEN 0
       ELSE IF s <= Len(text) /\ text[s].t # ","
            THEN RunEnd(text, s, {",", "\n"})
       ELSE IF spaces = {} THEN 0
       ELSE CHOOSE p \in spaces : \A q \in spaces : q <= p

\* re.match of a pattern at index i: the index of the last piece matched,
\* 0 if there is no match
AgencyEnd(pattern, text, low, i) ==
    LET e == WordsEnd(low, i, pattern.words)
    IN IF e = 0 THEN 0
       ELSE IF pattern.rest THEN RestEnd(text, e)
       ELSE e - 1

\* re.search(pattern, preview, re.IGNORECASE): match.group(0), or None
AgencySearch(pattern, text) ==
    LET low == Lower(text)
        starts == {i \in 1..Len(text) : AgencyEnd(pattern, text, low, i) > 0}
        first == CHOOSE i \in starts : \A j \in starts : i <= j
    IN IF starts = {} THEN None
       ELSE Some(SubSeq(text, first, AgencyEnd(pattern, text, low, first)))

\* s.rstrip('.,;:')
RECURSIVE RStripPunctuation(_)
RStripPunctuation(s) ==
    IF s # <<>> /\ s[Len(s)].t \in {".", ",", ";", ":", "..."}
    THEN RStripPunctuation(SubSeq(s, 1, Len(s) - 1))
    ELSE s

\* the word 'của' is taken away only where it leads
WithoutCua_Leading(s) ==
    IF s # <<>> /\ Head(s) \in {Chunk("CUA"), Chunk("cua")} THEN Tail(s)
    ELSE s

\* s.replace('CỦA', '').replace('của', '')
WithoutCua(s) == SelectSeq(s, LAMBDA c : c \notin {Chunk("CUA"), Chunk("cua")})

\* lines 106-110: the match made clean
CleanAgency(match) == Strip(WithoutCua(RStripPunctuation(Strip(match))))

\* line 112: len(agency) <= 200 and len(agency) > 3
AgencyLengthOk(agency) == StrLen(agency) <= 200 /\ StrLen(agency) > 3

\* lines 103-113: the first pattern, from index k of the list on, whose
\* clean match has a length that is accepted
RECURSIVE FirstAgency(_, _)
FirstAgency(k, text) ==
    IF k > Len(AGENCY_PATTERNS) THEN None
    ELSE LET match == AgencySearch(AGENCY_PATTERNS[k], text)
         IN IF IsSome(match) /\ AgencyLengthOk(CleanAgency(Val(match)))
            THEN Some(CleanAgency(Val(match)))
            ELSE FirstAgency(k + 1, text)

\* a piece that does not begin with a letter
NoLetter(c) ==
    \/ IsSpace(c)
    \/ c.t \in DIGITS
    \/ c.t \in {",", ".", ";", ":", "/", "-", "...", ". ", "15/2025", "19",
                "02", "2025"}

\* (?:CỦA|của)\s+([A-Z...][^,\n.]+) at index i of the text, capitals
\* aside: the indexes of the first and the last piece of the group, or None
CuaAt(text, low, i) ==
    LET s == SkipSpace(text, i + 1)
    IN IF /\ WordAt(low, i, "cua") /\ SpaceAt(text, i + 1)
          /\ s <= Len(text) /\ ~NoLetter(text[s])
          /\ \/ text[s].n >= 2
             \/ s + 1 <= Len(text) /\ text[s + 1].t \notin {",", "\n", "."}
       THEN Some(<<s, RunEnd(text, s, {",", "\n", "."})>>)
       ELSE None

\* lines 116-122: the name after the word 'của'
CuaAgency(text) ==
    LET low == Lower(text)
        starts == {i \in 1..Len(text) : IsSome(CuaAt(text, low, i))}
        first == CHOOSE i \in starts : \A j \in starts : i <= j
        group == Val(CuaAt(text, low, first))
        agency == RStripPunctuation(Strip(SubSeq(text, group[1], group[2])))
    IN IF starts # {} /\ AgencyLengthOk(agency) THEN Some(agency) ELSE None

\* MetadataExtractor._extract_issuing_agency(content, content_lower)
extract_issuing_agency(text) ==
    LET preview == Chars(WordPieces(Take(text, 1000)))
        fixed == FirstAgency(1, preview)
    IN IF IsSome(fixed) THEN fixed ELSE CuaAgency(preview)

-----------------------------------------------------------------------------
(* Values of the variables a specification leaves alone *)

NoClassification ==
    [main_group |-> "", main_folder |-> "", sub_groups |-> <<>>,
     confidence |-> "",
     scores |-> [metro |-> 0, dau_thau |-> 0, chung_cu |-> 0,
                 nha_o_xa_hoi |-> 0],
     matched_keywords |-> <<>>]

NoAnalysis ==
    [executive_summary |-> <<>>, keywords |-> <<>>, tags |-> <<>>,
     security_level |-> "", action_suggestions |-> <<>>]

\* nothing extracted yet
NoMetadata ==
    [document_type |-> None, issuing_agency |-> None, issue_date |-> None]

NoAnalyzeCall == [use_openai |-> FALSE, response |-> NoResponse]

NoCall == [question |-> <<>>, category |-> None, use_openai |-> FALSE,
           failAt |-> NoFail, response |-> NoResponse]

NoAnswer == [answer |-> <<>>, sources |-> <<>>, confidence |-> "",
             method |-> "", raised |-> FALSE]

-----------------------------------------------------------------------------
(* The classifier on its own: a text is typed piece by piece, then          *)
(* classified under a file name                                             *)

\* the pieces a typed text is made of
ContentAlphabet == {"TOD", "du an", " ", "chung cu"}

\* the file names a document is uploaded under
Filenames ==
    { Str(<<>>),
      Str(<<"bao cao", ".pdf">>),
      Str(<<"TOD", "4", ".pdf">>),
      Str(<<"NOXH", ".pdf">>),
      Str(<<"du an", " ", "chung cu", ".pdf">>) }

InitClassify ==
    /\ stage = "input"
    /\ content = <<>>
    /\ filename \in Filenames
    /\ classification = NoClassification
    /\ analysis = NoAnalysis
    /\ uploads = {}
    /\ selected_folder = None
    /\ group_selector = None
    /\ metadata = NoMetadata
    /\ analyzeCall = NoAnalyzeCall
    /\ sessionKey = None
    /\ envKey = None
    /\ fileKey = None
    /\ current_api_key = None
    /\ OPENAI_AVAILABLE = FALSE
    /\ client = None
    /\ db = <<>>
    /\ lastId = 0
    /\ qaCall = NoCall
    /\ qaResult = NoAnswer

\* one more piece of the document's text
TypeContent ==
    /\ stage = "input"
    /\ Len(content) < MaxContentLen
    /\ \E tag \in ContentAlphabet : content' = Append(content, Chunk(tag))
    /\ UNCHANGED <<stage, filename, uploads, pageVars, metadata,
                   classification, analysis, analyzeCall,
                   keyVars,
                   OPENAI_AVAILABLE, client, storeVars, qaVars>>

\* classification = DocumentClassifier.classify(content, filename)
Classify ==
    /\ stage = "input"
    /\ classification' = classify(content, filename)
    /\ stage' = "classified"
    /\ UNCHANGED <<content, filename, uploads, pageVars, metadata,
                   analysis, analyzeCall, keyVars,
                   OPENAI_AVAILABLE,
                   client, storeVars, qaVars>>

NextClassify == TypeContent \/ Classify

SpecClassify == InitClassify /\ [][NextClassify]_vars

-----------------------------------------------------------------------------
(* The upload flow of app.py up to the analysis: a text is typed piece by  *)
(* piece, classified, then analyzed                                        *)

\* what the chat completion call does when it is made
Responses ==
    { Raises,
      Returns(None),
      Returns(Some(<<>>)),
      Returns(Some(Str(<<" ">>))),
      Returns(Some(Str(<<" ", "ANS", "\n">>))) }

\* the pieces a typed text is made of
TextAlphabet ==
    {"P60", "P450", "\n", " ", "TOD", "Nghi dinh so", "15/2025"}

\* the key of the environment: none, white space, a key
EnvKeys == { None, Some(Str(<<" ">>)), Some(Str(<<"sk-E">>)) }

InitAnalyze ==
    /\ stage = "typing"
    /\ content = <<>>
    /\ filename = Str(<<"bao cao", ".pdf">>)
    /\ classification = NoClassification
    /\ analysis = NoAnalysis
    /\ uploads = {}
    /\ selected_folder = None
    /\ group_selector = None
    /\ metadata = NoMetadata
    /\ analyzeCall = NoAnalyzeCall
    /\ sessionKey = None
    /\ envKey \in EnvKeys
    /\ fileKey = None
    /\ current_api_key = None
    /\ OPENAI_AVAILABLE \in BOOLEAN
    /\ client = None
    /\ db = <<>>
    /\ lastId = 0
    /\ qaCall = NoCall
    /\ qaResult = NoAnswer

\* one more piece of the text
TypeText ==
    /\ stage = "typing"
    /\ Len(content) < MaxTextLen
    /\ \E piece \in TextAlphabet : content' = Append(content, Chunk(piece))
    /\ UNCHANGED <<stage, filename, uploads, pageVars, metadata,
                   classification, analysis, analyzeCall,
                   keyVars, OPENAI_AVAILABLE, client, storeVars, qaVars>>

\* app.py, line 175: classifier.classify(content, uploaded_file.name)
ClassifyUpload ==
    /\ stage = "typing"
    /\ stage' = "classified"
    /\ classification' = classify(content, filename)
    /\ UNCHANGED <<content, filename, uploads, pageVars, metadata,
                   analysis, analyzeCall, keyVars,
                   OPENAI_AVAILABLE, client, storeVars, qaVars>>

\* DocumentAnalyzer.analyze(content, filename, classification, use_openai).
\* response: what the chat completion call does if the summary gets that
\* far.  The list classification['matched_keywords'] is extended in place
Analyze ==
    \E use_openai \in BOOLEAN :
        \E response \in IF use_openai THEN Responses ELSE {NoResponse} :
            /\ stage = "classified"
            /\ stage' = "analyzed"
            /\ analyzeCall' = [use_openai |-> use_openai,
                               response |-> response]
            /\ analysis' = analyze(content, filename, classification,
                                   use_openai,
                                   OPENAI_AVAILABLE,
                                   get_api_key(sessionKey, envKey, fileKey),
                                   response)
            /\ classification' =
                   [classification EXCEPT !.matched_keywords =
                        MatchedKeywordsAfter(content, classification)]
            /\ UNCHANGED <<content, filename, uploads, pageVars, metadata,
                           keyVars, OPENAI_AVAILABLE,
                           client, storeVars, qaVars>>

NextAnalyze == TypeText \/ ClassifyUpload \/ Analyze

SpecAnalyze == InitAnalyze /\ [][NextAnalyze]_vars

-----------------------------------------------------------------------------
(* The question-answering system over the store: documents are saved, the  *)
(* API key is set in the sidebar, questions are asked                      *)

\* the documents saved
DocCatalog ==
    { [filename |-> "metro.pdf", category |-> "Metro_DuongSatDoThi",
       document_type |-> Some("Quyet dinh"),
       issuing_agency |-> Some("Chinh phu"),
       issue_date |-> Some(Str(<<"19", "/", "02", "/", "2025">>)),
       content_text |-> Some(Str(<<"Metro", " ", "P30", "\n", "ga">>))],
      [filename |-> "ga.pdf", category |-> "Metro_DuongSatDoThi",
       document_type |-> None, issuing_agency |-> None, issue_date |-> None,
       content_text |-> Some(Str(<<" ", "ga", " ", "P30", "\n",
                                   "metro", " ", "ga", " ", "P30">>))],
      [filename |-> "thau.pdf", category |-> "DauThau_KhuGiaoDuc_TOD",
       document_type |-> Some(""), issuing_agency |-> None,
       issue_date |-> None,
       content_text |-> Some(Str(<<"metro", "\n", "P30">>))] }

\* the questions asked
Questions == { Str(<<"Metro", " ", "ga">>), Str(<<"ga">>) }

\* the categories asked for; None: all of them
Categories == { None, Some("Metro_DuongSatDoThi") }

\* the reads of the store that fail during a question: none, the listing,
\* the load of the second listed row
ReadFailures == { NoFail, 0, 2 }

\* the key typed in the sidebar
TypedKeys == { Str(<<" ", "sk-S", " ">>) }

\* QASystem.__init__ under app.py: an empty table, the key of the
\* environment if there is one, the client _init_openai builds from it
InitQA ==
    /\ stage = "idle"
    /\ content = <<>>
    /\ filename = <<>>
    /\ classification = NoClassification
    /\ analysis = NoAnalysis
    /\ uploads = {}
    /\ selected_folder = None
    /\ group_selector = None
    /\ metadata = NoMetadata
    /\ analyzeCall = NoAnalyzeCall
    /\ sessionKey = None
    /\ envKey \in {None, Some(Str(<<"sk-E">>))}
    /\ fileKey = None
    /\ current_api_key = None
    /\ OPENAI_AVAILABLE \in BOOLEAN
    /\ \E ctorOk \in BOOLEAN :
           client = InitOpenai(None, OPENAI_AVAILABLE,
                               get_api_key(sessionKey, envKey, fileKey), ctorOk)
    /\ db = <<>>
    /\ lastId = 0
    /\ qaCall = NoCall
    /\ qaResult = NoAnswer

\* DocumentDB.save_document: one more row
SaveDocument ==
    /\ stage = "idle"
    /\ Len(db) < MaxStored
    /\ \E doc \in DocCatalog :
           /\ db' = Append(db, NewRow(doc, lastId + 1))
           /\ lastId' = lastId + 1
    /\ UNCHANGED <<stage, docVars, keyVars, OPENAI_AVAILABLE, client, qaVars>>

\* app.py, lines 99-110: the key typed in the sidebar is saved to
\* config.json (written: the file could be written) and to the session
\* state, and the client is reloaded
SaveApiKey ==
    \E new_api_key \in TypedKeys, written \in BOOLEAN, ctorOk \in BOOLEAN :
        /\ stage = "idle"
        /\ NonEmpty(new_api_key) /\ NonEmpty(Strip(new_api_key))
        /\ fileKey' = IF written THEN Some(Strip(new_api_key)) ELSE fileKey
        /\ sessionKey' = Some(Strip(new_api_key))
        /\ client' = InitOpenai(client, OPENAI_AVAILABLE,
                                get_api_key(sessionKey', envKey, fileKey'),
                                ctorOk)
        /\ UNCHANGED <<stage, docVars, envKey, current_api_key,
                       OPENAI_AVAILABLE, storeVars, qaVars>>

\* QASystem.reload_openai_client
ReloadOpenaiClient ==
    \E ctorOk \in BOOLEAN :
        /\ stage = "idle"
        /\ stage' = "reloaded"
        /\ client' = InitOpenai(client, OPENAI_AVAILABLE,
                                get_api_key(sessionKey, envKey, fileKey),
                                ctorOk)
        /\ UNCHANGED <<docVars, keyVars, OPENAI_AVAILABLE, storeVars, qaVars>>

\* reload_openai_client has returned to its caller
ClientReloaded ==
    /\ stage = "reloaded"
    /\ stage' = "idle"
    /\ UNCHANGED <<docVars, keyVars, OPENAI_AVAILABLE, client, storeVars,
                   qaVars>>

\* QASystem.answer_question.  response: what the chat completion call does
\* if the question gets that far
AnswerQuestion ==
    \E question \in Questions, category \in Categories,
       use_openai \in BOOLEAN, failAt \in ReadFailures :
        \E response \in IF use_openai THEN Responses ELSE {NoResponse} :
            /\ stage = "idle"
            /\ stage' = "answered"
            /\ qaCall' = [question |-> question, category |-> category,
                          use_openai |-> use_openai, failAt |-> failAt,
                          response |-> response]
            /\ qaResult' = answer_question(question, category, use_openai,
                                           client, db, failAt, response)
            /\ UNCHANGED <<docVars, keyVars, OPENAI_AVAILABLE, client,
                           storeVars>>

\* the caller has the answer and is ready for the next request
AnswerReturned ==
    /\ stage = "answered"
    /\ stage' = "idle"
    /\ qaCall' = NoCall
    /\ qaResult' = NoAnswer
    /\ UNCHANGED <<docVars, keyVars, OPENAI_AVAILABLE, client, storeVars>>

NextQA ==
    \/ SaveDocument
    \/ SaveApiKey
    \/ ReloadOpenaiClient
    \/ ClientReloaded
    \/ AnswerQuestion
    \/ AnswerReturned

SpecQA == InitQA /\ [][NextQA]_vars

-----------------------------------------------------------------------------
(* The credential over time: the environment and config.json hold a key,  *)
(* a blank value or nothing, and change outside the program; a key is     *)
(* typed in the sidebar; the key is looked up and the client reloaded     *)

\* what a layer holds: nothing, the empty string, white space, a key, a key
\* with white space around it
LayerValues(key) ==
    { None, Some(<<>>), Some(Str(<<" ">>)), Some(Str(<<key>>)),
      Some(Str(<<" ", key, "\n">>)) }

\* a new session: no key in the session state, the client that
\* QASystem.__init__ builds from the environment and config.json, a store
\* that holds one document
InitKeys ==
    /\ stage = "idle"
    /\ content = <<>>
    /\ filename = <<>>
    /\ uploads = {}
    /\ selected_folder = None
    /\ group_selector = None
    /\ metadata = NoMetadata
    /\ classification = NoClassification
    /\ analysis = NoAnalysis
    /\ analyzeCall = NoAnalyzeCall
    /\ sessionKey = None
    /\ envKey \in LayerValues("sk-E")
    /\ fileKey \in LayerValues("sk-F")
    /\ current_api_key = None
    /\ OPENAI_AVAILABLE \in BOOLEAN
    /\ \E ctorOk \in BOOLEAN :
           client = InitOpenai(None, OPENAI_AVAILABLE,
                               get_api_key(sessionKey, envKey, fileKey), ctorOk)
    /\ db = <<NewRow(CHOOSE doc \in DocCatalog : doc.filename = "metro.pdf",
                     1)>>
    /\ lastId = 1
    /\ qaCall = NoCall
    /\ qaResult = NoAnswer

\* app.py, line 88: current_api_key = Config.get_api_key()
GetApiKey ==
    /\ stage = "idle"
    /\ stage' = "looked up"
    /\ current_api_key' = get_api_key(sessionKey, envKey, fileKey)
    /\ UNCHANGED <<docVars, sessionKey, envKey, fileKey, OPENAI_AVAILABLE,
                   client, storeVars, qaVars>>

\* the page has been drawn with the key
KeyReturned ==
    /\ stage = "looked up"
    /\ stage' = "idle"
    /\ UNCHANGED <<docVars, keyVars, OPENAI_AVAILABLE, client, storeVars,
                   qaVars>>

\* outside the program: OPENAI_API_KEY is unset, or config.json is deleted
RemoveCredential ==
    /\ stage = "idle"
    /\ \/ envKey # None /\ envKey' = None /\ UNCHANGED fileKey
       \/ fileKey # None /\ fileKey' = None /\ UNCHANGED envKey
    /\ UNCHANGED <<stage, docVars, sessionKey, current_api_key,
                   OPENAI_AVAILABLE, client, storeVars, qaVars>>

NextKeys ==
    \/ GetApiKey
    \/ KeyReturned
    \/ SaveApiKey
    \/ RemoveCredential
    \/ ReloadOpenaiClient
    \/ ClientReloaded

SpecKeys == InitKeys /\ [][NextKeys]_vars

-----------------------------------------------------------------------------
(* Search and answer composition over a store of documents with several    *)
(* lines: documents are saved, the store is searched, questions are asked  *)
(* of a system that holds no client                                        *)

\* the documents saved: one with five lines that hold a question token, one
\* of them short and two of them equal once stripped; one with
\* two such lines, one of them of its own, and a short one; one whose only
\* token stands in a short line
SearchCatalog ==
    { [filename |-> "tuyen.pdf", category |-> "Metro_DuongSatDoThi",
       document_type |-> Some("Quyet dinh"), issuing_agency |-> None,
       issue_date |-> None,
       content_text |->
           Some(Str(<<"metro", " ", "P30", "\n",
                      "ga", " ", "P30", "\n",
                      "metro", " ", "ga", " ", "P30", "\n",
                      " ", "ga", " ", "P30", " ", "\n",
                      "ga">>))],
      [filename |-> "goi thau.pdf", category |-> "DauThau_KhuGiaoDuc_TOD",
       document_type |-> None, issuing_agency |-> None, issue_date |-> None,
       content_text |->
           Some(Str(<<"ga", " ", "P30", "\n",
                      "thau", " ", "P30", "\n",
                      "metro", "\n",
                      "P30", " ", "ga">>))],
      [filename |-> "ghi chu.pdf", category |-> "Metro_DuongSatDoThi",
       document_type |-> None, issuing_agency |-> None, issue_date |-> None,
       content_text |-> Some(Str(<<"metro", "\n", "P30", " ", "P30">>))] }

\* the store is empty and the system holds no client
InitSearch ==
    /\ stage = "idle"
    /\ content = <<>>
    /\ filename = <<>>
    /\ classification = NoClassification
    /\ analysis = NoAnalysis
    /\ uploads = {}
    /\ selected_folder = None
    /\ group_selector = None
    /\ metadata = NoMetadata
    /\ analyzeCall = NoAnalyzeCall
    /\ sessionKey = None
    /\ envKey = None
    /\ fileKey = None
    /\ current_api_key = None
    /\ OPENAI_AVAILABLE = TRUE
    /\ client = None
    /\ db = <<>>
    /\ lastId = 0
    /\ qaCall = NoCall
    /\ qaResult = NoAnswer

\* DocumentDB.save_document: one more row
SearchSave ==
    /\ stage = "idle"
    /\ Len(db) < MaxShelf
    /\ \E doc \in SearchCatalog :
           /\ db' = Append(db, NewRow(doc, lastId + 1))
           /\ lastId' = lastId + 1
    /\ UNCHANGED <<stage, docVars, keyVars, OPENAI_AVAILABLE, client, qaVars>>

\* a read that takes the oldest row out of the table
RowsAfterRead_Consume(rows) == IF rows = <<>> THEN rows ELSE Tail(rows)

\* the rows of the table after the SELECT statements of get_document,
\* get_documents_by_category and get_all_documents
RowsAfterRead(rows) == rows

\* QASystem.search_documents(question, category): the results are kept in
\* qaResult
SearchDocuments ==
    \E question \in Questions, category \in Categories :
        /\ stage = "idle"
        /\ stage' = "searched"
        /\ qaCall' = [NoCall EXCEPT !.question = question,
                                    !.category = category]
        /\ qaResult' =
               [results |->
                    search_documents(question,
                                     get_documents_by_group(db, category,
                                                            NoFail),
                                     MAX_DOCS)]
        /\ db' = RowsAfterRead(db)
        /\ UNCHANGED <<docVars, keyVars, OPENAI_AVAILABLE, client, lastId>>

\* QASystem.answer_question(question, category, use_openai); the store is
\* only read
SearchAnswer ==
    \E question \in Questions, category \in Categories,
       use_openai \in BOOLEAN :
        /\ stage = "idle"
        /\ stage' = "answered"
        /\ qaCall' = [NoCall EXCEPT !.question = question,
                                    !.category = category,
                                    !.use_openai = use_openai]
        /\ qaResult' = answer_question(question, category, use_openai,
                                       client, db, NoFail, NoResponse)
        /\ db' = RowsAfterRead(db)
        /\ UNCHANGED <<docVars, keyVars, OPENAI_AVAILABLE, client, lastId>>

\* the caller has the results or the answer
SearchReturned ==
    /\ stage \in {"searched", "answered"}
    /\ stage' = "idle"
    /\ qaCall' = NoCall
    /\ qaResult' = NoAnswer
    /\ UNCHANGED <<docVars, keyVars, OPENAI_AVAILABLE, client, storeVars>>

NextSearch ==
    \/ SearchSave
    \/ SearchDocuments
    \/ SearchAnswer
    \/ SearchReturned

SpecSearch == InitSearch /\ [][NextSearch]_vars

-----------------------------------------------------------------------------
(* The context of the request to the model: long documents are saved and  *)
(* a question is asked of a system that holds a client                    *)

\* documents of 5000, 5000, 12003 and 103 characters that hold the token
\* of the question once or twice, and one that does not hold it
ContextCatalog ==
    { [filename |-> "mot.pdf", category |-> "Metro_DuongSatDoThi",
       document_type |-> None, issuing_agency |-> None, issue_date |-> None,
       content_text |-> Some(Str(<<"ga", " ", "P4997">>))],
      [filename |-> "hai.pdf", category |-> "Metro_DuongSatDoThi",
       document_type |-> None, issuing_agency |-> None, issue_date |-> None,
       content_text |-> Some(Str(<<"ga", " ", "ga", " ", "P4994">>))],
      [filename |-> "dai.pdf", category |-> "Khac",
       document_type |-> None, issuing_agency |-> None, issue_date |-> None,
       content_text |-> Some(Str(<<"ga", " ", "P12000">>))],
      [filename |-> "ngan.pdf", category |-> "Khac",
       document_type |-> None, issuing_agency |-> None, issue_date |-> None,
       content_text |-> Some(Str(<<"ga", " ", "P100">>))],
      [filename |-> "khac.pdf", category |-> "Khac",
       document_type |-> None, issuing_agency |-> None, issue_date |-> None,
       content_text |-> Some(Str(<<"metro", " ", "P100">>))] }

\* the store is empty and the system holds a client
InitContext ==
    /\ stage = "idle"
    /\ content = <<>>
    /\ filename = <<>>
    /\ uploads = {}
    /\ selected_folder = None
    /\ group_selector = None
    /\ metadata = NoMetadata
    /\ classification = NoClassification
    /\ analysis = NoAnalysis
    /\ analyzeCall = NoAnalyzeCall
    /\ sessionKey = None
    /\ envKey = Some(Str(<<"sk-E">>))
    /\ fileKey = None
    /\ current_api_key = None
    /\ OPENAI_AVAILABLE = TRUE
    /\ client = Some(Str(<<"sk-E">>))
    /\ db = <<>>
    /\ lastId = 0
    /\ qaCall = NoCall
    /\ qaResult = NoAnswer

\* DocumentDB.save_document: one more row
ContextSave ==
    /\ stage = "idle"
    /\ Len(db) < MaxShelf
    /\ \E doc \in ContextCatalog :
           /\ db' = Append(db, NewRow(doc, lastId + 1))
           /\ lastId' = lastId + 1
    /\ UNCHANGED <<stage, docVars, keyVars, OPENAI_AVAILABLE, client, qaVars>>

\* answer_question, lines 216-229: the store is searched and, something
\* being found, _answer_with_openai(question, results) builds the context
\* of its request; the results and the context are kept in qaResult
SubmitContext ==
    \E results \in {search_documents(Str(<<"ga">>),
                                      get_documents_by_group(db, None, NoFail),
                                      MAX_DOCS)} :
        /\ stage = "idle"
        /\ IsSome(client)
        /\ results # <<>>
        /\ stage' = "submitted"
        /\ qaCall' = [NoCall EXCEPT !.question = Str(<<"ga">>),
                                    !.use_openai = TRUE]
        /\ qaResult' = [results |-> results, context |-> Context(results)]
        /\ UNCHANGED <<docVars, keyVars, OPENAI_AVAILABLE, client, storeVars>>

\* the request has been answered
ContextReturned ==
    /\ stage = "submitted"
    /\ stage' = "idle"
    /\ qaCall' = NoCall
    /\ qaResult' = NoAnswer
    /\ UNCHANGED <<docVars, keyVars, OPENAI_AVAILABLE, client, storeVars>>

NextContext ==
    \/ ContextSave
    \/ SubmitContext
    \/ ContextReturned

SpecContext == InitContext /\ [][NextContext]_vars

-----------------------------------------------------------------------------
(* save_document applied to documents whose date of issue is written in   *)
(* the formats of the upload form and of the docstring                    *)

\* the dates of issue: day, month and year as they are written
IssueDates ==
    { [day |-> "19", month |-> "02", year |-> "2025"],
      [day |-> "01", month |-> "12", year |-> "2024"] }

\* app.py, lines 362-367 (help of the field), and the docstring of
\* save_document, line 105
DateFormats == {"DD/MM/YYYY", "DD-MM-YYYY", "YYYY-MM-DD", "YYYY/MM/DD"}

\* a date as a user writes it in a format
Written(date, format) ==
    CASE format = "DD/MM/YYYY" ->
             Str(<<date.day, "/", date.month, "/", date.year>>)
      [] format = "DD-MM-YYYY" ->
             Str(<<date.day, "-", date.month, "-", date.year>>)
      [] format = "YYYY-MM-DD" ->
             Str(<<date.year, "-", date.month, "-", date.day>>)
      [] format = "YYYY/MM/DD" ->
             Str(<<date.year, "/", date.month, "/", date.day>>)

\* the arguments of save_document for a document with a date of issue
DatedDocument(issue_date) ==
    [filename |-> "van ban.pdf", category |-> "Khac",
     document_type |-> None, issuing_agency |-> None,
     issue_date |-> issue_date, content_text |-> None]

InitSaveDates ==
    /\ stage = "idle"
    /\ content = <<>>
    /\ filename = <<>>
    /\ uploads = {}
    /\ selected_folder = None
    /\ group_selector = None
    /\ metadata = NoMetadata
    /\ classification = NoClassification
    /\ analysis = NoAnalysis
    /\ analyzeCall = NoAnalyzeCall
    /\ sessionKey = None
    /\ envKey = None
    /\ fileKey = None
    /\ current_api_key = None
    /\ OPENAI_AVAILABLE = FALSE
    /\ client = None
    /\ db = <<>>
    /\ lastId = 0
    /\ qaCall = NoCall
    /\ qaResult = NoAnswer

\* DocumentDB.save_document(..., issue_date=...), the field of the form
\* left empty or filled with a date
SaveDated ==
    /\ stage = "idle"
    /\ Len(db) < MaxStored
    /\ \E issue_date \in {None} \cup {Some(Written(date, format)) :
                                          date \in IssueDates,
                                          format \in DateFormats} :
           /\ db' = Append(db, NewRow(DatedDocument(issue_date), lastId + 1))
           /\ lastId' = lastId + 1
    /\ UNCHANGED <<stage, docVars, keyVars, OPENAI_AVAILABLE, client, qaVars>>

NextSaveDates == SaveDated

SpecSaveDates == InitSaveDates /\ [][NextSaveDates]_vars

-----------------------------------------------------------------------------
(* The store over time: rows are saved and deleted, the store is searched  *)
(* with a cap on the documents looked at, questions are asked              *)

\* the documents saved: one that answers the question, one with a text
\* that does not, one without a text
StoreCatalog ==
    { [filename |-> "ga.pdf", category |-> "Metro_DuongSatDoThi",
       document_type |-> None, issuing_agency |-> None, issue_date |-> None,
       content_text |-> Some(Str(<<"ga", " ", "P30">>))],
      [filename |-> "thau.pdf", category |-> "DauThau_KhuGiaoDuc_TOD",
       document_type |-> None, issuing_agency |-> None, issue_date |-> None,
       content_text |-> Some(Str(<<"thau", " ", "P30">>))],
      [filename |-> "scan.pdf", category |-> "Metro_DuongSatDoThi",
       document_type |-> None, issuing_agency |-> None, issue_date |-> None,
       content_text |-> None] }

\* the values of max_docs search_documents is called with
MaxDocsAsked == {1, MAX_DOCS}

InitStore ==
    /\ stage = "idle"
    /\ content = <<>>
    /\ filename = <<>>
    /\ classification = NoClassification
    /\ analysis = NoAnalysis
    /\ uploads = {}
    /\ selected_folder = None
    /\ group_selector = None
    /\ metadata = NoMetadata
    /\ analyzeCall = NoAnalyzeCall
    /\ sessionKey = None
    /\ envKey = None
    /\ fileKey = None
    /\ current_api_key = None
    /\ OPENAI_AVAILABLE = TRUE
    /\ client = None
    /\ db = <<>>
    /\ lastId = 0
    /\ qaCall = NoCall
    /\ qaResult = NoAnswer

\* DocumentDB.save_document: one more row, under a new id
StoreSave ==
    /\ stage = "idle"
    /\ lastId < MaxRows
    /\ \E doc \in StoreCatalog :
           /\ db' = Append(db, NewRow(doc, NextId(db, lastId)))
           /\ lastId' = NextId(db, lastId)
    /\ UNCHANGED <<stage, docVars, keyVars, OPENAI_AVAILABLE, client, qaVars>>

\* DocumentDB.delete_document(doc_id), for an id the table holds or held
StoreDelete ==
    /\ stage = "idle"
    /\ \E doc_id \in 1..lastId : db' = delete_document(db, doc_id)
    /\ UNCHANGED <<stage, docVars, keyVars, OPENAI_AVAILABLE, client, lastId,
                   qaVars>>

\* QASystem.search_documents(question, category, max_docs)
StoreSearch ==
    \E category \in Categories, max_docs \in MaxDocsAsked :
        /\ stage = "idle"
        /\ stage' = "searched"
        /\ qaCall' = [question |-> Str(<<"ga">>), category |-> category,
                      max_docs |-> max_docs]
        /\ qaResult' =
               [results |->
                    search_documents(Str(<<"ga">>),
                                     get_documents_by_group(db, category,
                                                            NoFail),
                                     max_docs)]
        /\ UNCHANGED <<docVars, keyVars, OPENAI_AVAILABLE, client, storeVars>>

\* QASystem.answer_question(question, category, use_openai=False)
StoreAsk ==
    \E category \in Categories :
        /\ stage = "idle"
        /\ stage' = "answered"
        /\ qaCall' = [question |-> Str(<<"ga">>), category |-> category,
                      max_docs |-> MAX_DOCS]
        /\ qaResult' = answer_question(Str(<<"ga">>), category, FALSE, client,
                                       db, NoFail, NoResponse)
        /\ UNCHANGED <<docVars, keyVars, OPENAI_AVAILABLE, client, storeVars>>

\* the caller has the results or the answer
StoreReturned ==
    /\ stage \in {"searched", "answered"}
    /\ stage' = "idle"
    /\ qaCall' = NoCall
    /\ qaResult' = NoAnswer
    /\ UNCHANGED <<docVars, keyVars, OPENAI_AVAILABLE, client, storeVars>>

NextStore ==
    \/ StoreSave
    \/ StoreDelete
    \/ StoreSearch
    \/ StoreAsk
    \/ StoreReturned

SpecStore == InitStore /\ [][NextStore]_vars

-----------------------------------------------------------------------------
(* The upload page of app.py: every run of the script with a file in the  *)
(* uploader writes the temporary file, reads and processes it, and then   *)
(* handles the button that was clicked                                    *)

\* the files a user uploads: two that can be read, and one whose reader
\* raises (a damaged PDF)
UploadedFiles ==
    { [name |-> Str(<<"metro", ".pdf">>), readable |-> TRUE,
       text |-> Str(<<"metro", " ", "ga", " ", "P60">>)],
      [name |-> Str(<<"bao cao", ".pdf">>), readable |-> TRUE,
       text |-> Str(<<" ", "thau", " ", "P60", "\n">>)],
      [name |-> Str(<<"du an", ".pdf">>), readable |-> FALSE,
       text |-> <<>>] }

\* the file of the uploader
UploadedFile(name) == CHOOSE f \in UploadedFiles : f.name = name

\* DocumentReader.read_file(temp_path): the stripped text, or an exception
read_file(file) ==
    IF file.readable THEN Returns(Some(Strip(file.text))) ELSE Raises

\* the keys of folder_to_display, in the order of all_groups
ALL_FOLDERS ==
    <<"Metro_DuongSatDoThi", "DauThau_KhuGiaoDuc_TOD", "ChungCu",
      "NhaO_XaHoi", "Khac">>

\* the groups a user picks in the selector
PickedFolders == {"ChungCu"}

\* lines 252-260: default_index, as the folder it stands for
DefaultFolder(session_folder, main_folder) ==
    LET listed == {ALL_FOLDERS[i] : i \in 1..Len(ALL_FOLDERS)}
    IN IF IsSome(session_folder)
       THEN IF Val(session_folder) \in listed THEN Val(session_folder)
            ELSE ALL_FOLDERS[1]
       ELSE IF main_folder \in listed THEN main_folder
       ELSE ALL_FOLDERS[1]

\* lines 262-268: the folder of the group the selectbox shows.  A widget
\* keeps its value under its key, group_selector_<name>, as long as every
\* run draws it, and takes index only when there is no value under the key.
\* picked: the group the user has just chosen, if the run is due to that
ShownFolder(name, picked, default) ==
    IF IsSome(picked) THEN Val(picked)
    ELSE IF IsSome(group_selector) /\ Val(group_selector).name = name
         THEN Val(group_selector).folder
    ELSE default

\* the fields of the form as the user leaves them
FormInputs ==
    { [document_type |-> None, issuing_agency |-> None, issue_date |-> None],
      [document_type |-> Some("Quyet dinh"), issuing_agency |-> None,
       issue_date |-> Some(Str(<<"19", "/", "02", "/", "2025">>))] }

\* no file in the uploader, nothing in uploads/, an empty store, no key
InitUpload ==
    /\ stage = "empty"
    /\ content = <<>>
    /\ filename = <<>>
    /\ uploads = {}
    /\ selected_folder = None
    /\ group_selector = None
    /\ metadata = NoMetadata
    /\ classification = NoClassification
    /\ analysis = NoAnalysis
    /\ analyzeCall = NoAnalyzeCall
    /\ sessionKey = None
    /\ envKey = None
    /\ fileKey = None
    /\ current_api_key = None
    /\ OPENAI_AVAILABLE = FALSE
    /\ client = None
    /\ db = <<>>
    /\ lastId = 0
    /\ qaCall = NoCall
    /\ qaResult = NoAnswer

\* app.py, lines 146-438: one run of the script with file in the uploader.
\* clicked: the button that caused the run ("save", "cancel" or "none");
\* form: what the form holds; picked: the group the user has just chosen in
\* the selector, if any; stored: save_document returns (it raises otherwise)
RunUploadPage(file, clicked, form, picked, stored) ==
    LET read == read_file(file)
        api_key == get_api_key(sessionKey, envKey, fileKey)
        written == uploads \cup {file.name}
        removed == uploads \ {file.name}
    IN /\ filename' = file.name
       /\ IF read.kind = "raise"
          THEN /\ content' = <<>>
               /\ classification' = NoClassification
               /\ analysis' = NoAnalysis
               /\ uploads' = removed
               /\ group_selector' = None
               /\ stage' = "read failed"
               /\ UNCHANGED <<selected_folder, storeVars>>
          ELSE /\ content' = Val(read.content)
               /\ \E cls \in {classify(content', file.name)} :
                  \E shown \in {ShownFolder(file.name, picked,
                                  DefaultFolder(selected_folder,
                                                cls.main_folder))} :
                      /\ group_selector' =
                             Some([name |-> file.name, folder |-> shown])
                      /\ selected_folder' =
                             IF clicked = "save" /\ stored THEN None
                             ELSE Some(shown)
                      /\ analysis' =
                             analyze(content', file.name, cls, IsSome(api_key),
                                     OPENAI_AVAILABLE, api_key, NoResponse)
                      /\ classification' =
                             [cls EXCEPT !.matched_keywords =
                                  MatchedKeywordsAfter(content', cls)]
                      /\ CASE clicked = "save" /\ stored ->
                                  /\ db' = Append(db,
                                         NewRow([filename |-> file.name,
                                                 category |-> shown,
                                                 document_type |->
                                                     form.document_type,
                                                 issuing_agency |->
                                                     form.issuing_agency,
                                                 issue_date |->
                                                     form.issue_date,
                                                 content_text |->
                                                     Some(content')],
                                                lastId + 1))
                                  /\ lastId' = lastId + 1
                                  /\ uploads' = removed
                                  /\ stage' = "rerun"
                           [] clicked = "save" /\ ~stored ->
                                  /\ UNCHANGED storeVars
                                  /\ uploads' = written
                                  /\ stage' = "save failed"
                           [] clicked = "cancel" ->
                                  /\ UNCHANGED storeVars
                                  /\ uploads' = removed
                                  /\ stage' = "rerun"
                           [] OTHER ->
                                  /\ UNCHANGED storeVars
                                  /\ uploads' = written
                                  /\ stage' = "shown"
       /\ UNCHANGED <<metadata, analyzeCall, keyVars, OPENAI_AVAILABLE, client,
                      qaVars>>

\* the user puts a file into the uploader, and the script runs
ChooseFile ==
    /\ stage \in {"empty", "shown", "read failed", "save failed"}
    /\ \E file \in UploadedFiles :
           RunUploadPage(file, "none", CHOOSE f \in FormInputs : TRUE, None,
                         TRUE)

\* the user takes the file out of the uploader: the script runs with
\* uploaded_file None
ClearFile ==
    /\ stage \in {"shown", "read failed", "save failed"}
    /\ stage' = "empty"
    /\ filename' = <<>>
    /\ group_selector' = None
    /\ UNCHANGED <<content, uploads, selected_folder, metadata,
                   classification, analysis, analyzeCall,
                   keyVars, OPENAI_AVAILABLE, client, storeVars, qaVars>>

\* the save button, shown once the file has been processed
ClickSave ==
    /\ stage \in {"shown", "save failed"}
    /\ Len(db) < MaxUploaded
    /\ \E form \in FormInputs, stored \in BOOLEAN :
           RunUploadPage(UploadedFile(filename), "save", form, None, stored)

\* the cancel button
ClickCancel ==
    /\ stage \in {"shown", "save failed"}
    /\ RunUploadPage(UploadedFile(filename), "cancel",
                     CHOOSE f \in FormInputs : TRUE, None, TRUE)

\* the user chooses a group in the selector, and the script runs
PickGroup ==
    /\ stage \in {"shown", "save failed"}
    /\ \E folder \in PickedFolders :
           RunUploadPage(UploadedFile(filename), "none",
                         CHOOSE f \in FormInputs : TRUE, Some(folder), TRUE)

\* st.rerun(): the script runs again, the file still in the uploader
Rerun ==
    /\ stage = "rerun"
    /\ RunUploadPage(UploadedFile(filename), "none",
                     CHOOSE f \in FormInputs : TRUE, None, TRUE)

NextUpload ==
    \/ ChooseFile
    \/ ClearFile
    \/ PickGroup
    \/ ClickSave
    \/ ClickCancel
    \/ Rerun

SpecUpload == InitUpload /\ [][NextUpload]_vars

-----------------------------------------------------------------------------
(* _extract_issue_date applied to texts made of dates, of the words that  *)
(* announce a date, and of other text                                     *)

\* the phrases of a text: dates written day first, with dashes, with
\* slashes, without leading zeros and in words, dates written year first,
\* the words 'ngày' and 'ban hành' with white space after them, a space, a
\* digit, and 1490 characters of other text
DatePhrases ==
    { Str(<<"1", "9", "-", "0", "2", "-", "2", "0", "2", "5">>),
      Str(<<"19", "/", "02", "/", "2025">>),
      Str(<<"2", "0", "2", "5", "-", "0", "2", "-", "1", "9">>),
      Str(<<"1", "/", "3", "/", "2", "0", "2", "4">>),
      Str(<<"2", "0", "2", "2", "/", "6", "/", "8">>),
      Str(<<"5", " ", "thang", " ", "1", "2", " ", "nam", " ",
            "2", "0", "2", "3">>),
      Str(<<"Ngay", " ">>),
      Str(<<"ban", " ", "hanh", "\n">>),
      Str(<<" ">>),
      Str(<<"7">>),
      Str(<<"P1490">>) }

\* the texts of up to MaxPhrases phrases
PhraseTexts(phrases) ==
    UNION { {Join(<<>>, ps) : ps \in [1..n -> phrases]} : n \in 0..MaxPhrases }

InitDates ==
    /\ stage = "text"
    /\ content \in PhraseTexts(DatePhrases)
    /\ filename = <<>>
    /\ uploads = {}
    /\ selected_folder = None
    /\ group_selector = None
    /\ metadata = NoMetadata
    /\ classification = NoClassification
    /\ analysis = NoAnalysis
    /\ analyzeCall = NoAnalyzeCall
    /\ sessionKey = None
    /\ envKey = None
    /\ fileKey = None
    /\ current_api_key = None
    /\ OPENAI_AVAILABLE = FALSE
    /\ client = None
    /\ db = <<>>
    /\ lastId = 0
    /\ qaCall = NoCall
    /\ qaResult = NoAnswer

\* issue_date = MetadataExtractor._extract_issue_date(content, ...)
ExtractIssueDate ==
    /\ stage = "text"
    /\ stage' = "dated"
    /\ metadata' = [metadata EXCEPT !.issue_date = extract_issue_date(content)]
    /\ UNCHANGED <<content, filename, uploads, pageVars,
                   classification, analysis,
                   analyzeCall, keyVars, OPENAI_AVAILABLE, client, storeVars,
                   qaVars>>

NextDates == ExtractIssueDate

SpecDates == InitDates /\ [][NextDates]_vars

-----------------------------------------------------------------------------
(* _extract_document_type applied to texts that name types of documents  *)

\* the phrases of a text: names of types in small letters, with capitals
\* and in capitals, a name with 'số' after it, a space, a digit, another
\* word, and 990 characters of other text
TypePhrases ==
    { Str(<<"Luat">>), Str(<<"nghi dinh">>), Str(<<"QUYET DINH">>),
      Str(<<"Nghi dinh so">>), Str(<<" ">>), Str(<<"4">>), Str(<<"ga">>),
      Str(<<"P990">>) }

\* the file names: one that names no type, one that names a type, one that
\* names two types in small letters, the later of the list first
TypeFilenames ==
    { Str(<<"ga", ".pdf">>),
      Str(<<"Thong tu", " ", "4", ".pdf">>),
      Str(<<"quy che", " ", "luat", ".pdf">>) }

InitTypes ==
    /\ stage = "text"
    /\ content \in PhraseTexts(TypePhrases)
    /\ filename \in TypeFilenames
    /\ uploads = {}
    /\ selected_folder = None
    /\ group_selector = None
    /\ metadata = NoMetadata
    /\ classification = NoClassification
    /\ analysis = NoAnalysis
    /\ analyzeCall = NoAnalyzeCall
    /\ sessionKey = None
    /\ envKey = None
    /\ fileKey = None
    /\ current_api_key = None
    /\ OPENAI_AVAILABLE = FALSE
    /\ client = None
    /\ db = <<>>
    /\ lastId = 0
    /\ qaCall = NoCall
    /\ qaResult = NoAnswer

\* document_type = MetadataExtractor._extract_document_type(content, ...,
\* filename)
ExtractDocumentType ==
    /\ stage = "text"
    /\ stage' = "typed"
    /\ metadata' = [metadata EXCEPT !.document_type =
                        extract_document_type(content, filename)]
    /\ UNCHANGED <<content, filename, uploads, pageVars,
                   classification, analysis,
                   analyzeCall, keyVars, OPENAI_AVAILABLE, client, storeVars,
                   qaVars>>

NextTypes == ExtractDocumentType

SpecTypes == InitTypes /\ [][NextTypes]_vars

-----------------------------------------------------------------------------
(* _extract_issuing_agency applied to texts that name agencies            *)

\* the phrases of a text: an agency that a pattern of two words names, a
\* ministry, the word 'Bộ' with a space, a council, a name no pattern
\* holds, the word 'của' between spaces, a space, a comma, a full stop,
\* and 250 characters of other text
AgencyPhrases ==
    { Str(<<"Chinh", " ", "phu">>),
      Str(<<"Bo", " ", "Tai chinh">>),
      Str(<<"Bo", " ">>),
      Str(<<"UBND">>),
      Str(<<"Ngan hang">>),
      Str(<<"thu", " ", "tuong">>),
      Str(<<" ", "cua", " ">>),
      Str(<<" ">>),
      Str(<<",">>),
      Str(<<".">>),
      Str(<<"P250">>) }

InitAgencies ==
    /\ stage = "text"
    /\ content \in PhraseTexts(AgencyPhrases)
    /\ filename = <<>>
    /\ uploads = {}
    /\ selected_folder = None
    /\ group_selector = None
    /\ metadata = NoMetadata
    /\ classification = NoClassification
    /\ analysis = NoAnalysis
    /\ analyzeCall = NoAnalyzeCall
    /\ sessionKey = None
    /\ envKey = None
    /\ fileKey = None
    /\ current_api_key = None
    /\ OPENAI_AVAILABLE = FALSE
    /\ client = None
    /\ db = <<>>
    /\ lastId = 0
    /\ qaCall = NoCall
    /\ qaResult = NoAnswer

\* issuing_agency = MetadataExtractor._extract_issuing_agency(content, ...)
ExtractIssuingAgency ==
    /\ stage = "text"
    /\ stage' = "agency"
    /\ metadata' = [metadata EXCEPT !.issuing_agency =
                        extract_issuing_agency(content)]
    /\ UNCHANGED <<content, filename, uploads, pageVars,
                   classification, analysis,
                   analyzeCall, keyVars, OPENAI_AVAILABLE, client, storeVars,
                   qaVars>>

NextAgencies == ExtractIssuingAgency

SpecAgencies == InitAgencies /\ [][NextAgencies]_vars

-----------------------------------------------------------------------------
(* The upload flow of app.py from the classification on, for texts that   *)
(* hold many keywords, numbered acts and tags                             *)

\* the phrases a text is made of: nine keywords of the group metro, four
\* numbered acts, the keyword 'đấu thầu' and the same words typed without
\* diacritics
InsightPhrases ==
    { Str(<<"metro", " ", "depot", " ", "nha ga", " ", "RAMS", " ", "FEED",
            " ", "FS", " ", "khao sat", " ", "MRT", " ", "duong ray", " ">>),
      Str(<<"nghi dinh so", " ", "15/2025", " ">>),
      Str(<<"thong tu so", " ", "1", "fs", " ">>),
      Str(<<"quyet dinh so", " ", "2phap_ly", " ">>),
      Str(<<"nghi dinh so", " ", "3dau_thau", " ">>),
      Str(<<"dau thau", " ">>),
      Str(<<"ascii:dau thau", " ">>) }

InitInsights ==
    /\ stage = "typing"
    /\ content \in PhraseTexts(InsightPhrases)
    /\ filename = Str(<<"bao cao", ".pdf">>)
    /\ uploads = {}
    /\ selected_folder = None
    /\ group_selector = None
    /\ metadata = NoMetadata
    /\ classification = NoClassification
    /\ analysis = NoAnalysis
    /\ analyzeCall = NoAnalyzeCall
    /\ sessionKey = None
    /\ envKey = None
    /\ fileKey = None
    /\ current_api_key = None
    /\ OPENAI_AVAILABLE = TRUE
    /\ client = None
    /\ db = <<>>
    /\ lastId = 0
    /\ qaCall = NoCall
    /\ qaResult = NoAnswer

\* app.py, lines 178-182: analyze as the upload flow calls it, with
\* use_openai = Config.get_api_key() is not None
AnalyzeUpload ==
    \E api_key \in {get_api_key(sessionKey, envKey, fileKey)} :
        \E response \in IF IsSome(api_key) THEN Responses ELSE {NoResponse} :
            /\ stage = "classified"
            /\ stage' = "analyzed"
            /\ analyzeCall' = [use_openai |-> IsSome(api_key),
                               response |-> response]
            /\ analysis' = analyze(content, filename, classification,
                                   IsSome(api_key), OPENAI_AVAILABLE, api_key,
                                   response)
            /\ classification' =
                   [classification EXCEPT !.matched_keywords =
                        MatchedKeywordsAfter(content, classification)]
            /\ UNCHANGED <<content, filename, uploads, pageVars, metadata,
                           keyVars, OPENAI_AVAILABLE,
                           client, storeVars, qaVars>>

NextInsights == ClassifyUpload \/ AnalyzeUpload

SpecInsights == InitInsights /\ [][NextInsights]_vars

-----------------------------------------------------------------------------
(* assess_security_level applied to texts and file names that hold the    *)
(* words it looks for                                                     *)

SecurityPhrases ==
    { Str(<<"bao mat">>),
      Str(<<"khong cong bo">>),
      Str(<<"noi bo">>),
      Str(<<"Du thao">>),
      Str(<<"Cong khai">>),
      Str(<<"cong bo">>),
      Str(<<" ">>),
      Str(<<"P60">>) }

SecurityFilenames ==
    { Str(<<"bao cao", ".pdf">>),
      Str(<<"MAT", ".pdf">>),
      Str(<<"Cong khai", ".pdf">>) }

InitSecurity ==
    /\ stage = "text"
    /\ content \in PhraseTexts(SecurityPhrases)
    /\ filename \in SecurityFilenames
    /\ uploads = {}
    /\ selected_folder = None
    /\ group_selector = None
    /\ metadata = NoMetadata
    /\ classification = NoClassification
    /\ analysis = NoAnalysis
    /\ analyzeCall = NoAnalyzeCall
    /\ sessionKey = None
    /\ envKey = None
    /\ fileKey = None
    /\ current_api_key = None
    /\ OPENAI_AVAILABLE = FALSE
    /\ client = None
    /\ db = <<>>
    /\ lastId = 0
    /\ qaCall = NoCall
    /\ qaResult = NoAnswer

\* DocumentAnalyzer.assess_security_level(content, filename)
AssessSecurityLevel ==
    /\ stage = "text"
    /\ stage' = "assessed"
    /\ analysis' = [analysis EXCEPT !.security_level =
                        assess_security_level(content, filename)]
    /\ UNCHANGED <<content, filename, uploads, pageVars, metadata,
                   classification,
                   analyzeCall, keyVars, OPENAI_AVAILABLE, client,
                   storeVars, qaVars>>

NextSecurity == AssessSecurityLevel

SpecSecurity == InitSecurity /\ [][NextSecurity]_vars

-----------------------------------------------------------------------------
(* Properties of classify *)

\* a document has been classified
Classified == stage = "classified"

\* the groups the result may name: the keys of KEYWORDS and the fallback
ALL_GROUPS == GROUPS \cup {"khac"}

\* position of a group in the declaration order
GroupIndex(g) == CHOOSE i \in 1..Len(GroupOrder) : GroupOrder[i] = g

\* occurrences in the text of the i-th keyword of a group
Hits(g, i) == FindallCount(PATTERNS[g][i], Lower(content))

\* the i-th keyword of a group occurs in the file name
NameHit(g, i) == Contains(Lower(filename), PATTERNS[g][i])

\* no keyword of any group occurs in the text
NoTextHit == \A g \in GROUPS : \A i \in 1..Len(PATTERNS[g]) : Hits(g, i) = 0

\* no keyword of any group occurs in the file name
NoNameHit == \A g \in GROUPS : \A i \in 1..Len(PATTERNS[g]) : ~NameHit(g, i)

IsOther(c) ==
    /\ c.main_group = "khac"
    /\ c.confidence = "thap"
    /\ c.matched_keywords = <<>>
    /\ c.sub_groups = <<>>

\* C1 as stated: a text without any keyword hit is classified as 'khac'
\* with confidence 'thap', no matched keyword and no sub-group, whatever the
\* file name
C1_AnyFilename == Classified /\ NoTextHit => IsOther(classification)

\* C1, amended: a text without any keyword hit, under a file name that holds
\* no keyword either, is classified as 'khac' with confidence 'thap', no
\* matched keyword and no sub-group
C1_NoHitIsOther ==
    Classified /\ NoTextHit /\ NoNameHit => IsOther(classification)

C1_Witness ==
    /\ Classified
    /\ NoTextHit
    /\ NoNameHit
    /\ Len(content) >= 2
    /\ filename # <<>>
    /\ classification.main_group = "khac"

\* the greatest score of a result
MaxScore(c) == CHOOSE m \in {c.scores[g] : g \in DOMAIN c.scores} :
                   \A g \in DOMAIN c.scores : c.scores[g] <= m

SomeScore(c) == \E g \in DOMAIN c.scores : c.scores[g] # 0

\* C2: when some score is not 0, main_group holds the greatest score, no
\* group declared before it holds that score too, and main_folder is the
\* folder FOLDER_MAPPING gives for it
C2_MainGroupIsFirstMax ==
    Classified /\ SomeScore(classification) =>
        LET c == classification
        IN /\ c.main_group \in GROUPS
           /\ c.scores[c.main_group] = MaxScore(c)
           /\ \A g \in GROUPS :
                  GroupIndex(g) < GroupIndex(c.main_group)
                      => c.scores[g] < MaxScore(c)
           /\ c.main_folder = FOLDER_MAPPING(c.main_group)

\* a tie for the greatest score between two groups, neither declared first
C2_Witness ==
    /\ Classified
    /\ classification.main_group = "dau_thau"
    /\ classification.scores["chung_cu"] = classification.scores["dau_thau"]
    /\ classification.scores["metro"] < classification.scores["dau_thau"]
    /\ classification.main_folder = "DauThau_KhuGiaoDuc_TOD"

\* the sum of the scores of a result
SumScores(c) ==
    c.scores["metro"] + c.scores["dau_thau"] + c.scores["chung_cu"]
        + c.scores["nha_o_xa_hoi"]

\* max_score >= 5 and max_score / total > 0.6
HighShare(c) == MaxScore(c) >= 5 /\ 5 * MaxScore(c) > 3 * SumScores(c)

\* C3: with a score that is not 0, confidence is 'cao' exactly when
\* max_score >= 5 and max_score / total > 0.6, otherwise 'trung_binh'
\* exactly when max_score >= 2, otherwise 'thap'
C3_ConfidenceTiers ==
    Classified /\ SomeScore(classification) =>
        LET c == classification
        IN /\ c.confidence \in {"cao", "trung_binh", "thap"}
           /\ c.confidence = "cao" <=> HighShare(c)
           /\ c.confidence = "trung_binh" <=> ~HighShare(c) /\ MaxScore(c) >= 2
           /\ c.confidence = "thap" <=> ~HighShare(c) /\ MaxScore(c) < 2

\* a share of exactly 0.6 with a score of 6: not high
C3_Witness ==
    /\ Classified
    /\ MaxScore(classification) = 6
    /\ SumScores(classification) = 10
    /\ classification.confidence = "trung_binh"

\* the text holds n >= 5 occurrences of the i-th keyword of group g and no
\* occurrence of any other keyword
OnlyKeyword(g, i) ==
    /\ Hits(g, i) >= 5
    /\ \A h \in GROUPS : \A j \in 1..Len(PATTERNS[h]) :
           <<h, j>> # <<g, i>> => Hits(h, j) = 0

\* the i-th keyword of group g is listed under no other group
ListedOnce(g, i) ==
    \A h \in GROUPS \ {g} : \A j \in 1..Len(PATTERNS[h]) :
        PATTERNS[h][j] # PATTERNS[g][i]

\* C4: a text whose only keyword occurrences are n >= 5 occurrences of one
\* keyword listed under exactly one group, with an empty file name, is
\* classified as that group with confidence 'cao' and no sub-group
C4_SingleKeywordIsHigh ==
    \A g \in GROUPS : \A i \in 1..Len(PATTERNS[g]) :
        Classified /\ filename = <<>> /\ OnlyKeyword(g, i) /\ ListedOnce(g, i)
            => /\ classification.main_group = g
               /\ classification.confidence = "cao"
               /\ classification.sub_groups = <<>>

\* exactly 5 occurrences of 'du an', a keyword of dau_thau alone
C4_Witness ==
    /\ Classified
    /\ filename = <<>>
    /\ \E i \in 1..Len(PATTERNS["dau_thau"]) :
           /\ OnlyKeyword("dau_thau", i)
           /\ ListedOnce("dau_thau", i)
           /\ Hits("dau_thau", i) = 5
    /\ classification.confidence = "cao"

\* the groups named by sub_groups, in order
SubNames(c) == [i \in 1..Len(c.sub_groups) |-> c.sub_groups[i].group]

\* group g comes before group h in the order of sub_groups: higher score, or
\* the same score and declared first
Before(c, g, h) ==
    \/ c.scores[g] > c.scores[h]
    \/ c.scores[g] = c.scores[h] /\ GroupIndex(g) < GroupIndex(h)

\* C5: sub_groups has at most 2 entries, holds neither main_group nor a
\* group of score 0, is ordered by score descending with ties in declaration
\* order, and holds the highest-scoring groups other than main_group
C5_SubGroups ==
    Classified =>
        LET c == classification
            names == SubNames(c)
            in == {names[i] : i \in 1..Len(names)}
        IN /\ Len(names) <= 2
           /\ \A i \in 1..Len(names) :
                  /\ names[i] \in GROUPS
                  /\ names[i] # c.main_group
                  /\ c.scores[names[i]] > 0
                  /\ c.sub_groups[i].score = c.scores[names[i]]
           /\ \A i, j \in 1..Len(names) :
                  i < j => Before(c, names[i], names[j])
           /\ \A g \in GROUPS \ (in \cup {c.main_group}) :
                  c.scores[g] > 0 =>
                      /\ Len(names) = 2
                      /\ \A h \in in : Before(c, h, g)

\* all four groups score, so one scoring group is left out of sub_groups
C5_Witness ==
    /\ Classified
    /\ \A g \in GROUPS : classification.scores[g] > 0
    /\ Len(classification.sub_groups) = 2
    /\ classification.sub_groups[1].score = classification.sub_groups[2].score

\* C6 as stated: scores has an entry for every group of {metro, dau_thau,
\* chung_cu, nha_o_xa_hoi, khac}
C6_EveryGroupWithOther ==
    Classified => DOMAIN classification.scores = ALL_GROUPS

\* C6, amended: scores has an entry for every group of KEYWORDS (metro,
\* dau_thau, chung_cu, nha_o_xa_hoi), also when the group's score is 0; the
\* fallback group 'khac' has no entry
C6_EveryKeywordGroup ==
    Classified => /\ DOMAIN classification.scores = GROUPS
                  /\ \A g \in GROUPS : classification.scores[g] \in Nat

C6_Witness ==
    /\ Classified
    /\ classification.main_group = "metro"
    /\ classification.scores["chung_cu"] = 0
    /\ classification.scores["nha_o_xa_hoi"] = 0

-----------------------------------------------------------------------------
(* Properties of answer_question, under SpecQA *)

Answered == stage = "answered"

\* the results the search of the last question gave
LastResults ==
    search_documents(qaCall.question,
                     get_documents_by_group(db, qaCall.category, qaCall.failAt),
                     MAX_DOCS)

\* the chat completion call of the last question returned a text that is
\* not empty once stripped
ModelAnswered ==
    /\ qaCall.response.kind = "ok"
    /\ IsSome(qaCall.response.content)
    /\ Strip(Val(qaCall.response.content)) # <<>>

\* C7: while the system holds no client, no answer of answer_question has
\* method 'openai', whatever the caller asks for and whatever the external
\* call would have returned.
C7_NoClientNoModelAnswer ==
    Answered /\ client = None => qaResult.method # "openai"

\* model assistance asked for, results found, a model that would have
\* answered, and no client: the answer is the composed one
C7_Witness ==
    /\ Answered
    /\ client = None
    /\ qaCall.use_openai
    /\ ModelAnswered
    /\ LastResults # <<>>
    /\ qaResult.method = "simple"
    /\ qaResult.answer # <<>>

\* C8: when the store holds no document, or the search leaves no result,
\* answer_question returns the fixed "no information" answer with no source,
\* confidence 'low' and method 'simple', whether or not model assistance is
\* asked for and a client is held, and raises nothing.
C8_NothingFoundIsNoInformation ==
    Answered /\ (db = <<>> \/ LastResults = <<>>)
        => /\ ~qaResult.raised
           /\ qaResult.answer
                  = Str(<<"Tai lieu hien co chua cung cap thong tin nay.">>)
           /\ qaResult.sources = <<>>
           /\ qaResult.confidence = "low"
           /\ qaResult.method = "simple"

\* a store with documents none of which survives the search, asked with
\* model assistance, a client, and a model that would have answered
C8_Witness ==
    /\ Answered
    /\ db # <<>>
    /\ qaCall.failAt = NoFail
    /\ LastResults = <<>>
    /\ qaCall.use_openai
    /\ IsSome(client)
    /\ ModelAnswered
    /\ qaResult.method = "simple"
    /\ qaResult.confidence = "low"

\* the chat completion call of the last question raised, or returned no
\* text, or a text that is empty once stripped
ModelFailed ==
    \/ qaCall.response.kind = "raise"
    \/ /\ qaCall.response.kind = "ok"
       /\ \/ ~IsSome(qaCall.response.content)
          \/ Strip(Val(qaCall.response.content)) = <<>>

\* C9: when answer_question makes the external call and the call raises or
\* returns an empty answer, answer_question raises nothing and returns what
\* it returns for the same question on the same store with use_openai
\* False.
C9_FailedModelFallsBack ==
    Answered /\ CallsModel(qaCall.question, qaCall.category,
                           qaCall.use_openai, client, db, qaCall.failAt)
             /\ ModelFailed
        => /\ ~qaResult.raised
           /\ qaResult = answer_question(qaCall.question, qaCall.category,
                                         FALSE, client, db, qaCall.failAt,
                                         NoResponse)

\* the call was made and raised; the answer is the composed one, from two
\* results
C9_Witness ==
    /\ Answered
    /\ qaCall.use_openai
    /\ IsSome(client)
    /\ Len(LastResults) >= 2
    /\ qaCall.response.kind = "raise"
    /\ ~qaResult.raised
    /\ qaResult.method = "simple"
    /\ qaResult.confidence = "high"

-----------------------------------------------------------------------------
(* Properties of analyze, under SpecAnalyze *)

Analyzed == stage = "analyzed"

\* the key create_executive_summary_with_openai finds
ConfiguredKey == get_api_key(sessionKey, envKey, fileKey)

\* the external call of the last analyze raised, or returned no text, or a
\* text that is empty once stripped
SummaryFailed ==
    \/ analyzeCall.response.kind = "raise"
    \/ /\ analyzeCall.response.kind = "ok"
       /\ \/ ~IsSome(analyzeCall.response.content)
          \/ Strip(Val(analyzeCall.response.content)) = <<>>

\* the summary analyze gives the same text and classification when model
\* assistance is not requested
DeterministicSummary ==
    create_executive_summary(content, classification, FALSE,
                             OPENAI_AVAILABLE, ConfiguredKey, NoResponse)

\* C10: when analyze is asked for model-assisted summarization and no key
\* is configured, or the external call raises or returns an empty response,
\* executive_summary is the summary analyze gives the same text and
\* classification without model assistance.
C10_FailedSummaryFallsBack ==
    Analyzed /\ analyzeCall.use_openai
             /\ (~IsSome(ConfiguredKey) \/ SummaryFailed)
        => analysis.executive_summary = DeterministicSummary

\* C10, the part the code keeps: with no key configured, or the external
\* call raising, executive_summary is the deterministic summary
C10_RaiseOrNoKeyFallsBack ==
    Analyzed /\ analyzeCall.use_openai
             /\ (~IsSome(ConfiguredKey) \/ analyzeCall.response.kind = "raise")
        => analysis.executive_summary = DeterministicSummary

\* a key, the package, a text, and an external call that returned the
\* empty string: the summary is the group label alone
C10_EmptyResponseKept ==
    /\ Analyzed
    /\ analyzeCall.use_openai
    /\ OPENAI_AVAILABLE
    /\ IsSome(ConfiguredKey) /\ NonEmpty(Val(ConfiguredKey))
    /\ analyzeCall.response = Returns(Some(<<>>))
    /\ content = Str(<<"P60">>)
    /\ analysis.executive_summary = SummaryPrefix(classification)
    /\ analysis.executive_summary # DeterministicSummary

-----------------------------------------------------------------------------
(* Properties of search_documents and of the composed answer, under        *)
(* SpecSearch                                                              *)

Searched == stage = "searched"

\* the tokens of the last question
LastTokens == SplitWords(Lower(qaCall.question))

\* a line of a document text that holds a token of the last question and is
\* longer than 20 characters once stripped
Qualifies(line) ==
    /\ \E i \in 1..Len(LastTokens) : Contains(Lower(line), LastTokens[i])
    /\ StrLen(Strip(line)) > 20

\* the lines of the text of a row
LinesOf(row) == Split(Val(row.content_text), "\n")

\* C11: every result of search_documents has a relevant_text of one to
\* three lines, each longer than 20 characters and holding a question
\* token, and a match_score of at least 1; a stored document none of whose
\* lines qualifies is in no result.
C11_ResultsHoldQualifyingLines ==
    Searched =>
        /\ \A i \in 1..Len(qaResult.results) :
               LET r == qaResult.results[i]
               IN /\ Len(r.relevant_text) \in 1..3
                  /\ r.match_score >= 1
                  /\ \A j \in 1..Len(r.relevant_text) :
                         /\ StrLen(r.relevant_text[j]) > 20
                         /\ \E k \in 1..Len(LastTokens) :
                                Contains(Lower(r.relevant_text[j]),
                                         LastTokens[k])
        /\ \A n \in 1..Len(db) :
               (\A m \in 1..Len(LinesOf(db[n])) : ~Qualifies(LinesOf(db[n])[m]))
                   => \A i \in 1..Len(qaResult.results) :
                          qaResult.results[i].id # db[n].id

\* a search that returns a document with more than three qualifying lines
\* and a short line holding a token, while a stored document whose only
\* token stands in a short line is left out
C11_Witness ==
    /\ Searched
    /\ \E i \in 1..Len(qaResult.results) :
           /\ Len(qaResult.results[i].relevant_text) = 3
           /\ \E n \in 1..Len(db) :
                  /\ db[n].id = qaResult.results[i].id
                  /\ Cardinality({m \in 1..Len(LinesOf(db[n])) :
                                      Qualifies(LinesOf(db[n])[m])}) > 3
                  /\ \E m \in 1..Len(LinesOf(db[n])) :
                         /\ ~Qualifies(LinesOf(db[n])[m])
                         /\ \E k \in 1..Len(LastTokens) :
                                Contains(Lower(LinesOf(db[n])[m]),
                                         LastTokens[k])
    /\ \E n \in 1..Len(db) :
           /\ \E k \in 1..Len(LastTokens) :
                  Contains(Lower(Val(db[n].content_text)), LastTokens[k])
           /\ \A i \in 1..Len(qaResult.results) :
                  qaResult.results[i].id # db[n].id

-----------------------------------------------------------------------------
(* Properties of the cap of search_documents, under SpecStore *)

\* the listing of the store the last call read, newest first
Listing ==
    IF IsSome(qaCall.category)
    THEN get_documents_by_category(db, Val(qaCall.category))
    ELSE get_all_documents(db)

\* the ids of the first k rows of a list of rows
FirstIds(rows, k) == {rows[i].id : i \in 1..(IF Len(rows) < k THEN Len(rows) ELSE k)}

\* the rows of the listing that have a text
ListedWithText ==
    SelectSeq(Listing, LAMBDA r : IsSome(get_document(db, r.id))
                                  /\ IsSome(Val(get_document(db, r.id)).content_text)
                                  /\ Val(Val(get_document(db, r.id)).content_text) # <<>>)

\* the ids of the documents the last call returned or cited
ReturnedIds ==
    IF stage = "searched"
    THEN {qaResult.results[i].id : i \in 1..Len(qaResult.results)}
    ELSE {Val(qaResult.sources[i].id) : i \in 1..Len(qaResult.sources)}

\* C12 as stated: every document search_documents returns, and every
\* document answer_question cites, is among the first max_docs rows of the
\* listing of the store.
C12_AmongFirstListed ==
    stage \in {"searched", "answered"}
        => ReturnedIds \subseteq FirstIds(Listing, qaCall.max_docs)

\* C12: every document search_documents returns, and every document
\* answer_question cites, is among the first max_docs rows of the listing
\* that have a text: a matching document behind them is never returned.
C12_AmongFirstListedWithText ==
    stage \in {"searched", "answered"}
        => ReturnedIds \subseteq FirstIds(ListedWithText, qaCall.max_docs)

\* a question asked of a store whose listing holds more documents with a
\* text than the cap, one behind the cap answering the question and one
\* before it not: the one behind is not cited
C12_Witness ==
    /\ stage = "answered"
    /\ Len(ListedWithText) > qaCall.max_docs
    /\ \E i \in (qaCall.max_docs + 1)..Len(ListedWithText) :
           ListedWithText[i].filename = "ga.pdf"
    /\ \E i \in 1..qaCall.max_docs : ListedWithText[i].filename = "thau.pdf"
    /\ qaResult.sources # <<>>

-----------------------------------------------------------------------------
(* Properties of the composed answer, under SpecSearch *)

\* the lines of the first three of a list of results, in order
RECURSIVE GatheredLines(_, _)
GatheredLines(results, i) ==
    IF i > Len(results) \/ i > 3 THEN <<>>
    ELSE results[i].relevant_text \o GatheredLines(results, i + 1)

\* the elements of a list at the place of their first occurrence
FirstOccurrences(list) ==
    SelectSeq([i \in 1..Len(list) |-> [at |-> i, line |-> list[i]]],
              LAMBDA x : \A j \in 1..(x.at - 1) : list[j] # x.line)

\* the first three distinct lines of a list, each followed by an empty line
\* but the last
RECURSIVE Stacked(_, _)
Stacked(occurrences, i) ==
    IF i > Len(occurrences) \/ i > 3 THEN <<>>
    ELSE (IF i > 1 THEN <<Chunk("\n"), Chunk("\n")>> ELSE <<>>)
         \o occurrences[i].line \o Stacked(occurrences, i + 1)

\* C13: an answer composed without the model from results that are not
\* empty is made of the first three distinct lines gathered in rank order
\* from the first three results; it has one source per result of the first
\* three, in rank order; its confidence is 'high' with two results or more
\* and 'medium' with one; its method is 'simple'.
C13_ComposedAnswer ==
    Answered /\ LastResults # <<>> /\ ~(qaCall.use_openai /\ IsSome(client))
        => /\ qaResult.answer
                  = Stacked(FirstOccurrences(GatheredLines(LastResults, 1)), 1)
           /\ Len(qaResult.sources)
                  = (IF Len(LastResults) < 3 THEN Len(LastResults) ELSE 3)
           /\ \A i \in 1..Len(qaResult.sources) :
                  /\ qaResult.sources[i].filename = LastResults[i].filename
                  /\ qaResult.sources[i].id = Some(LastResults[i].id)
           /\ \A i \in 1..(Len(LastResults) - 1) :
                  LastResults[i].match_score >= LastResults[i + 1].match_score
           /\ qaResult.confidence
                  = (IF Len(LastResults) >= 2 THEN "high" ELSE "medium")
           /\ qaResult.method = "simple"

\* four results, the second repeating a line of the first among the first
\* three lines gathered, and more than three distinct lines in all
C13_Witness ==
    /\ Answered
    /\ Len(LastResults) = 4
    /\ Len(qaResult.sources) = 3
    /\ \E i \in 1..3 : \E j \in 1..(i - 1) :
           GatheredLines(LastResults, 1)[i] = GatheredLines(LastResults, 1)[j]
    /\ Len(FirstOccurrences(GatheredLines(LastResults, 1))) > 3
    /\ qaResult.confidence = "high"

\* one result, whose lines repeat: the answer has fewer than three lines
C13_WitnessMedium ==
    /\ Answered
    /\ Len(LastResults) = 1
    /\ Len(FirstOccurrences(GatheredLines(LastResults, 1)))
           < Len(GatheredLines(LastResults, 1))
    /\ qaResult.confidence = "medium"

-----------------------------------------------------------------------------
(* The store under search_documents and answer_question, under SpecSearch *)

\* C14: a step of search_documents or answer_question leaves the table as
\* it was: the same rows, with the same fields, and the same id counter,
\* for every question, category and use_openai.
C14_ReadsLeaveStore ==
    [][stage = "idle" /\ stage' \in {"searched", "answered"}
           => db' = db /\ lastId' = lastId]_vars

\* an answer with sources, asked with use_openai of a store that holds
\* documents
C14_Witness ==
    /\ Answered
    /\ qaCall.use_openai
    /\ IsSome(qaCall.category)
    /\ Len(db) >= 2
    /\ qaResult.sources # <<>>

-----------------------------------------------------------------------------
(* Store read failures under answer_question, under SpecQA *)

\* a read of the store failed during the last question: the listing, or the
\* load of a listed row
ReadFailed ==
    \/ qaCall.failAt = 0
    \/ /\ qaCall.failAt > 0
       /\ qaCall.failAt <= Len(Listing)

\* C15: when a read of the store fails while answer_question lists or loads
\* the documents, answer_question ends in an error instead of an answer.
C15_ReadFailureSurfaces ==
    Answered /\ ReadFailed => qaResult.raised

\* the listing fails over a store that holds a document answering the
\* question, and answer_question returns the "no information" answer
C15_FailureAnswered ==
    /\ Answered
    /\ qaCall.failAt = 0
    /\ answer_question(qaCall.question, qaCall.category, qaCall.use_openai,
                       client, db, NoFail, qaCall.response).sources # <<>>
    /\ ~qaResult.raised
    /\ qaResult = NoInformation

-----------------------------------------------------------------------------
(* Properties of the upload page *)

\* the last run of the upload page ended in the handler of a failure
UploadFailed == stage \in {"read failed", "save failed"}

\* C16: a run of the upload page that ends in a file-read failure or in a
\* failure of save_document leaves the store as it was and leaves no
\* temporary file of the uploaded file in uploads/
C16_FailureLeavesNothing ==
    [][UploadFailed' => db' = db /\ filename' \notin uploads']_vars

\* C16, the part that holds: a failed run leaves the store as it was, a
\* failed read leaves no temporary file, and a row is written only by a
\* run that has computed the classification and the analysis, with the
\* text that was read
C16_RecordAfterProcessing ==
    [][/\ UploadFailed' => db' = db
       /\ stage' = "read failed" => filename' \notin uploads'
       /\ db' # db =>
              /\ classification' # NoClassification
              /\ analysis' # NoAnalysis
              /\ db'[Len(db')].content_text = Some(content')
              /\ SubSeq(db', 1, Len(db)) = db]_vars

\* save_document raised and the temporary file is still in uploads/
C16_SaveFailedTempKept == stage = "save failed" /\ filename \in uploads

\* a read failed and the temporary file is gone
C16_ReadFailedTempGone ==
    stage = "read failed" /\ filename \notin uploads /\ db # <<>>

-----------------------------------------------------------------------------
(* Properties of the identities of the store *)

\* the identities of the rows of a table
Ids(rows) == {rows[i].id : i \in 1..Len(rows)}

\* the row of a table with an identity
RowOf(rows, id) == rows[CHOOSE i \in 1..Len(rows) : rows[i].id = id]

\* C17: over any sequence of save_document and delete_document calls, the
\* rows of the table have pairwise different identities, a new row gets an
\* identity no row ever had (the identities given so far are 1..lastId), a
\* row that stays keeps its identity and its fields, and a row leaves the
\* table only by a delete_document called with its identity
C17_IdentitiesKept ==
    /\ [](/\ \A i, j \in 1..Len(db) : db[i].id = db[j].id => i = j
          /\ Ids(db) \subseteq 1..lastId)
    /\ [][/\ lastId' >= lastId
          /\ \A id \in Ids(db') \ Ids(db) :
                 id \notin 1..lastId /\ id \in 1..lastId'
          /\ \A id \in Ids(db) \cap Ids(db') : RowOf(db', id) = RowOf(db, id)
          /\ \A id \in Ids(db) \ Ids(db') :
                 db' = delete_document(db, id)]_vars

\* rows have been deleted, the newest among them, and rows saved since
C17_Witness ==
    /\ Len(db) >= 2
    /\ lastId \in Ids(db)
    /\ \E id \in 1..lastId : id \notin Ids(db) /\ id + 1 \in Ids(db)
    /\ \E id \in 1..lastId : id \notin Ids(db) /\ id - 1 \in Ids(db)

-----------------------------------------------------------------------------
(* Properties of _extract_issue_date *)

\* _extract_issue_date has returned
Dated == stage = "dated"

\* two digits, a slash, two digits, a slash, four digits
IsDDMMYYYY(s) ==
    /\ Len(s) = 10 /\ StrLen(s) = 10
    /\ \A i \in {1, 2, 4, 5, 7, 8, 9, 10} : s[i].t \in DIGITS
    /\ s[3].t = "/" /\ s[6].t = "/"

\* "19/02/2025"
The19th == Str(<<"1", "9", "/", "0", "2", "/", "2", "0", "2", "5">>)

\* C18: a value returned by _extract_issue_date has two digits of day, a
\* slash, two digits of month, a slash and four digits of year; the texts
\* "19-02-2025", "19/02/2025" and "2025-02-19" give "19/02/2025", and the
\* texts "1/3/2024" and "2022/6/8" give "01/03/2024" and "08/06/2022"
C18_DayMonthYear ==
    Dated =>
        /\ IsSome(metadata.issue_date) => IsDDMMYYYY(Val(metadata.issue_date))
        /\ Chars(content) \in
               { Str(<<"1", "9", "-", "0", "2", "-", "2", "0", "2", "5">>),
                 The19th,
                 Str(<<"2", "0", "2", "5", "-", "0", "2", "-", "1", "9">>) }
               => metadata.issue_date = Some(The19th)
        /\ content = Str(<<"1", "/", "3", "/", "2", "0", "2", "4">>)
               => metadata.issue_date =
                      Some(Str(<<"0", "1", "/", "0", "3", "/",
                                 "2", "0", "2", "4">>))
        /\ content = Str(<<"2", "0", "2", "2", "/", "6", "/", "8">>)
               => metadata.issue_date =
                      Some(Str(<<"0", "8", "/", "0", "6", "/",
                                 "2", "0", "2", "2">>))

\* the text "2025-02-19" has given "19/02/2025"
C18_Witness ==
    /\ Dated
    /\ content = Str(<<"2", "0", "2", "5", "-", "0", "2", "-", "1", "9">>)
    /\ metadata.issue_date = Some(The19th)

\* the first 1500 characters as the patterns see them
DatePreview == Lower(Chars(Take(content, 1500)))

\* a pattern has a match in the preview
HasMatch(pattern) == MatchStarts(pattern, DatePreview) # {}

\* the date of the leftmost match of a pattern in the preview
LeftmostDate(pattern) ==
    LET starts == MatchStarts(pattern, DatePreview)
        i == CHOOSE i \in starts : \A j \in starts : i <= j
    IN Normalized(Val(MatchPattern(pattern, DatePreview, i)))

\* the first pattern of a list that has a match decides
FirstDecides(patterns) ==
    \A k \in 1..Len(patterns) :
        (/\ HasMatch(patterns[k])
         /\ \A l \in 1..(k - 1) : ~HasMatch(patterns[l]))
            => metadata.issue_date = Some(LeftmostDate(patterns[k]))

\* a pattern announced by 'ban hành' or 'ngày' has a match
AnyAnchored == \E k \in 1..Len(PRIORITY_PATTERNS) : HasMatch(PRIORITY_PATTERNS[k])

\* a bare pattern has a match
AnyBare == \E k \in 1..Len(DATE_PATTERNS) : HasMatch(DATE_PATTERNS[k])

\* C19: if a date announced by 'ban hành' or 'ngày' lies in the first 1500
\* characters, the result is the leftmost match of the first announced
\* pattern that has a match, whatever bare dates the preview holds and
\* wherever they are; otherwise it is the leftmost match of the first bare
\* pattern that has a match; it is None if no pattern matches
C19_AnchoredDateFirst ==
    Dated =>
        /\ AnyAnchored => FirstDecides(PRIORITY_PATTERNS)
        /\ ~AnyAnchored => FirstDecides(DATE_PATTERNS)
        /\ ~AnyAnchored /\ ~AnyBare => metadata.issue_date = None

\* a bare date stands before an announced date with another value, and the
\* announced date is the result
C19_Witness ==
    /\ Dated
    /\ \E i \in MatchStarts("numeric dmy", DatePreview),
          j \in MatchStarts("anchored numeric", DatePreview) :
           /\ i < j
           /\ \A h \in MatchStarts("anchored numeric", DatePreview) : j <= h
           /\ Val(MatchPattern("numeric dmy", DatePreview, i))
                  # Val(MatchPattern("anchored numeric", DatePreview, j))
           /\ metadata.issue_date =
                  Some(Normalized(Val(MatchPattern("anchored numeric",
                                                   DatePreview, j))))

\* two bare patterns match, the second one further left, and the first one
\* decides
C19_WitnessBare ==
    /\ Dated
    /\ ~AnyAnchored
    /\ \E i \in MatchStarts("numeric ymd", DatePreview),
          j \in MatchStarts("numeric dmy", DatePreview) :
           /\ i < j
           /\ LeftmostDate("numeric ymd") # LeftmostDate("numeric dmy")
           /\ metadata.issue_date = Some(LeftmostDate("numeric dmy"))

-----------------------------------------------------------------------------
(* Properties of _extract_document_type *)

\* _extract_document_type has returned
Typed == stage = "typed"

\* the first 1000 characters of the text, in small letters
TextPreview == TypePreview(Take(content, 1000))

\* the indexes of the preview at which the name of a type stands with
\* white space and then a further character after it
Occurrences(doc_type) ==
    {i \in 1..Len(TextPreview) :
         /\ TextPreview[i] = Chunk(LowerTag(doc_type))
         /\ SpaceAt(TextPreview, i + 1)
         /\ SkipSpace(TextPreview, i + 1) <= Len(TextPreview)}

\* the file name holds the name of a type, capitals aside
Named(doc_type) ==
    \E i \in 1..Len(filename) :
        LowerTag(filename[i].t) = LowerTag(doc_type)

\* the position of a type in the list
TypeIndex(doc_type) ==
    CHOOSE k \in 1..Len(DOCUMENT_TYPES) : DOCUMENT_TYPES[k] = doc_type

\* the first type of the list among a set of types, None for the empty set
FirstListed(types) ==
    IF types = {} THEN None
    ELSE Some(CHOOSE t \in types :
                  \A u \in types : TypeIndex(t) <= TypeIndex(u))

AllTypes == {DOCUMENT_TYPES[k] : k \in 1..Len(DOCUMENT_TYPES)}

\* C20: the result is the first type of the list among the types matched in
\* the first 1000 characters, wherever they stand; if no type is matched
\* there, it is the first type of the list among the types the file name
\* holds, capitals aside; it is None if there is none either
C20_FirstListedType ==
    Typed =>
        LET matched == {t \in AllTypes : Occurrences(t) # {}}
            named == {t \in AllTypes : Named(t)}
        IN metadata.document_type =
               IF matched # {} THEN FirstListed(matched)
               ELSE FirstListed(named)

\* a type stands in the text before a type that is earlier in the list,
\* the file name holds yet another type, and the earlier of the list is
\* the result
C20_Witness ==
    /\ Typed
    /\ \E t, u \in AllTypes :
           /\ TypeIndex(t) < TypeIndex(u)
           /\ Occurrences(t) # {} /\ Occurrences(u) # {}
           /\ \A i \in Occurrences(t) : \E j \in Occurrences(u) : j < i
           /\ metadata.document_type = Some(t)
    /\ \E v \in AllTypes : Named(v) /\ metadata.document_type # Some(v)

\* no type is matched in the text, the file name holds two types, and the
\* earlier of the list is the result
C20_WitnessName ==
    /\ Typed
    /\ content # <<>>
    /\ \A t \in AllTypes : Occurrences(t) = {}
    /\ Named("Quy che")
    /\ metadata.document_type = Some("Luat")

-----------------------------------------------------------------------------
(* Properties of _extract_issuing_agency *)

\* _extract_issuing_agency has returned
AgencyDone == stage = "agency"

\* the first 1000 characters of the text
AgencyPreview == Chars(WordPieces(Take(content, 1000)))

\* the fixed patterns that match the preview
MatchingAgencies ==
    {k \in 1..Len(AGENCY_PATTERNS) :
         IsSome(AgencySearch(AGENCY_PATTERNS[k], AgencyPreview))}

\* the match of the first fixed pattern that matches
FirstAgencyMatch ==
    Val(AgencySearch(AGENCY_PATTERNS[CHOOSE k \in MatchingAgencies :
                                         \A l \in MatchingAgencies : k <= l],
                     AgencyPreview))

\* a match without its trailing punctuation and without a leading 'của'
TrimmedAgency(match) ==
    Strip(WithoutCua_Leading(RStripPunctuation(Strip(match))))

C21_FirstAcceptedPatternWins ==
    AgencyDone =>
        LET accepted ==
                {k \in MatchingAgencies :
                     AgencyLengthOk(CleanAgency(Val(
                         AgencySearch(AGENCY_PATTERNS[k], AgencyPreview))))}
        IN /\ IsSome(metadata.issuing_agency) =>
                  AgencyLengthOk(Val(metadata.issuing_agency))
           /\ accepted # {} =>
                  \E k \in accepted :
                      /\ \A l \in accepted : k <= l
                      /\ metadata.issuing_agency =
                             Some(CleanAgency(Val(
                                 AgencySearch(AGENCY_PATTERNS[k],
                                              AgencyPreview))))
           /\ accepted = {} =>
                  metadata.issuing_agency = CuaAgency(AgencyPreview)

C21_LaterPatternReturned ==
    /\ AgencyDone
    /\ MatchingAgencies # {}
    /\ ~AgencyLengthOk(CleanAgency(FirstAgencyMatch))
    /\ ~AgencyLengthOk(TrimmedAgency(FirstAgencyMatch))
    /\ IsSome(metadata.issuing_agency)

-----------------------------------------------------------------------------
(* Properties of the lists of analyze, under SpecInsights *)

\* no element of the list occurs twice
Distinct(list) == \A i, j \in 1..Len(list) : i # j => list[i] # list[j]

\* list holds the first cap distinct elements of all, each at the place of
\* its first occurrence
FirstDistinct(list, all, cap) ==
    \E occurrences \in {FirstOccurrences(all)} :
        /\ Len(list) = IF Len(occurrences) < cap THEN Len(occurrences) ELSE cap
        /\ \A i \in 1..Len(list) : list[i] = occurrences[i].line

\* the keywords of the classifier followed by the numbered acts of the text
AllKeywords ==
    classify(content, filename).matched_keywords
    \o AppendedKeywords(Lower(content))

\* the tags found in the text followed by the group of the classification
AllTags == FoundTags(Lower(content)) \o <<classification.main_group>>

\* the suggestions of the group followed by those of the keywords
AllSuggestions == Suggested(classification, analysis.keywords)

\* C22: analyze returns at most 10 keywords and at most 5 suggestions;
\* keywords, tags and suggestions hold no element twice, and hold the
\* elements gathered for them in the order of their first occurrence
C22_ListsCappedAndDistinct ==
    Analyzed =>
        /\ Len(analysis.keywords) <= 10
        /\ Len(analysis.action_suggestions) <= 5
        /\ Distinct(analysis.keywords)
        /\ Distinct(analysis.tags)
        /\ Distinct(analysis.action_suggestions)
        /\ FirstDistinct(analysis.keywords, AllKeywords, 10)
        /\ FirstDistinct(analysis.tags, AllTags, Len(AllTags))
        /\ FirstDistinct(analysis.action_suggestions, AllSuggestions, 5)

\* six suggestions were gathered and five are returned
C22_Witness ==
    /\ Analyzed
    /\ Len(AllSuggestions) = 6
    /\ Len(analysis.action_suggestions) = 5

\* a numbered act that the text holds twice is one keyword
C22_WitnessRepeated ==
    /\ Analyzed
    /\ ~Distinct(AllKeywords)
    /\ Distinct(analysis.keywords)

\* eleven distinct keywords were gathered and ten are returned
C22_WitnessKeywords ==
    /\ Analyzed
    /\ Len(FirstOccurrences(AllKeywords)) = 11
    /\ Len(analysis.keywords) = 10

\* the group of the classification is also a tag found in the text, and is
\* returned once
C22_WitnessTags ==
    /\ Analyzed
    /\ ~Distinct(AllTags)
    /\ Len(analysis.tags) = Len(AllTags) - 1

-----------------------------------------------------------------------------
(* Properties of assess_security_level, under SpecSecurity *)

Assessed == stage = "assessed"

\* the string holds one of the pieces
HoldsPiece(s, pieces) == \E i \in 1..Len(s) : s[i].t \in pieces

\* a sensitive keyword stands in the text or in the file name, in small
\* letters or in capitals
SensitiveWord ==
    \/ HoldsPiece(content, {"bao mat", "khong cong bo", "noi bo"})
    \/ HoldsPiece(filename, {"MAT"})

\* the text holds the word for 'internal' or the word for 'draft'
InternalWord == HoldsPiece(content, {"noi bo", "Du thao"})

\* a public keyword stands in the text
PublicWord == HoldsPiece(content, {"Cong khai", "cong bo", "khong cong bo"})

\* C23: the level is 'nhay_cam' if a sensitive keyword stands in the text
\* or the file name, whatever else the text holds; otherwise 'noi_bo' if the
\* text holds the word for 'internal' or 'draft'; otherwise 'cong_khai' if
\* a public keyword stands in the text; otherwise 'noi_bo'
C23_SensitiveFirst ==
    Assessed =>
        analysis.security_level =
            IF SensitiveWord THEN "nhay_cam"
            ELSE IF InternalWord THEN "noi_bo"
            ELSE IF PublicWord THEN "cong_khai"
            ELSE "noi_bo"

\* a sensitive keyword, the word for 'draft' and a public keyword stand in
\* the text and the level is 'nhay_cam'
C23_Witness ==
    /\ Assessed
    /\ HoldsPiece(content, {"bao mat"})
    /\ HoldsPiece(content, {"Du thao"})
    /\ HoldsPiece(content, {"Cong khai"})
    /\ analysis.security_level = "nhay_cam"

\* the word for 'draft' and a public keyword stand in the text, no
\* sensitive keyword does, and the level is 'noi_bo'
C23_WitnessDraft ==
    /\ Assessed
    /\ ~SensitiveWord
    /\ HoldsPiece(content, {"Du thao"})
    /\ PublicWord
    /\ analysis.security_level = "noi_bo"

\* a public keyword stands in the file name only and the level is 'noi_bo'
C23_WitnessName ==
    /\ Assessed
    /\ ~SensitiveWord /\ ~InternalWord /\ ~PublicWord
    /\ HoldsPiece(filename, {"Cong khai"})
    /\ analysis.security_level = "noi_bo"

-----------------------------------------------------------------------------
(* Properties of get_api_key, under SpecKeys *)

\* Config.get_api_key has returned
LookedUp == stage = "looked up"

\* the layer holds a key: a string that is not blank
HoldsKey(layer) == IsSome(layer) /\ Strip(Val(layer)) # <<>>

\* the layer is unset: there is no value, or the empty string
Unset(layer) == layer = None \/ layer = Some(<<>>)

\* C24: the key of the session state is returned when there is one, whatever
\* the other layers hold; otherwise the key of the environment when there
\* is one, whatever config.json holds; otherwise, the environment being
\* unset, the key of config.json; and None when every layer is unset
C24_LayersInOrder ==
    LookedUp =>
        /\ HoldsKey(sessionKey) =>
               current_api_key = Some(Strip(Val(sessionKey)))
        /\ ~HoldsKey(sessionKey) /\ HoldsKey(envKey) =>
               current_api_key = Some(Strip(Val(envKey)))
        /\ ~HoldsKey(sessionKey) /\ Unset(envKey) /\ HoldsKey(fileKey) =>
               current_api_key = Some(Strip(Val(fileKey)))
        /\ ~HoldsKey(sessionKey) /\ Unset(envKey) /\ Unset(fileKey) =>
               current_api_key = None

\* every layer holds a key and the key of the session state is returned
C24_Witness ==
    /\ LookedUp
    /\ HoldsKey(sessionKey) /\ HoldsKey(envKey) /\ HoldsKey(fileKey)
    /\ current_api_key = Some(Str(<<"sk-S">>))

\* the session state holds no key, the other layers do, and the key of the
\* environment is returned without the white space around it
C24_WitnessEnvironment ==
    /\ LookedUp
    /\ sessionKey = None
    /\ envKey = Some(Str(<<" ", "sk-E", "\n">>))
    /\ HoldsKey(fileKey)
    /\ current_api_key = Some(Str(<<"sk-E">>))

\* only config.json holds a key, and it is returned
C24_WitnessFile ==
    /\ LookedUp
    /\ sessionKey = None /\ Unset(envKey)
    /\ current_api_key = Some(Str(<<"sk-F">>))

\* the key of the first layer that holds one, None if no layer does
FirstKey ==
    IF HoldsKey(sessionKey) THEN Some(Strip(Val(sessionKey)))
    ELSE IF HoldsKey(envKey) THEN Some(Strip(Val(envKey)))
    ELSE IF HoldsKey(fileKey) THEN Some(Strip(Val(fileKey)))
    ELSE None

\* C30: get_api_key returns None or a string that is not empty and has no
\* white space at either end, and a layer that holds a blank value is
\* passed over for the next one
C30_BlankLayerIsUnset ==
    LookedUp =>
        /\ \/ current_api_key = None
           \/ /\ Val(current_api_key) # <<>>
              /\ Strip(Val(current_api_key)) = Val(current_api_key)
        /\ current_api_key = FirstKey

\* C30, the part that holds: the result is None or a string without white
\* space at either end, and with the environment and config.json unset it
\* is the key of the session state, if that holds one
C30_StrippedResult ==
    LookedUp =>
        /\ \/ current_api_key = None
           \/ Strip(Val(current_api_key)) = Val(current_api_key)
        /\ Unset(envKey) /\ Unset(fileKey) => current_api_key = FirstKey

\* the environment holds white space, config.json holds a key, and the
\* empty string is returned
C30_BlankEnvironmentWins ==
    /\ LookedUp
    /\ sessionKey = None
    /\ envKey = Some(Str(<<" ">>))
    /\ HoldsKey(fileKey)
    /\ current_api_key = Some(<<>>)

-----------------------------------------------------------------------------
(* Properties of the context of _answer_with_openai, under SpecContext *)

Submitted == stage = "submitted"

\* the number of characters of document text in a context
RECURSIVE TextLength(_)
TextLength(parts) ==
    IF parts = <<>> THEN 0
    ELSE StrLen(Head(parts).content) + TextLength(Tail(parts))

\* the characters of the texts of the first k results
RECURSIVE FullLength(_, _)
FullLength(results, k) ==
    IF k = 0 THEN 0
    ELSE StrLen(results[k].full_content) + FullLength(results, k - 1)

\* C25: the context holds at most three entries, entry i is taken from
\* result i, and its document text has at most 10000 characters: an entry
\* that fits with those before it holds the whole text of its result, the
\* first that does not holds the characters of its text that still fit and
\* is the last entry
C25_ContextWithinBudget ==
    Submitted =>
        LET results == qaResult.results
            parts == qaResult.context
        IN /\ Len(parts) <= 3 /\ Len(parts) <= Len(results)
           /\ TextLength(parts) <= 10000
           /\ \A i \in 1..Len(parts) :
                  /\ parts[i].filename = results[i].filename
                  /\ IF FullLength(results, i) <= 10000
                     THEN parts[i].content = results[i].full_content
                     ELSE /\ i = Len(parts)
                          /\ parts[i].content =
                                 Take(results[i].full_content,
                                      10000 - FullLength(results, i - 1))
           /\ \A i \in 1..Len(results) :
                  i <= 3 /\ FullLength(results, i) <= 10000 => i <= Len(parts)
           /\ Len(parts) >= 1

\* the first result fits, the second is cut to what is left of the limit,
\* and a third result is left out
C25_Witness ==
    /\ Submitted
    /\ Len(qaResult.results) >= 3
    /\ Len(qaResult.context) = 2
    /\ qaResult.context[2].content # qaResult.results[2].full_content
    /\ TextLength(qaResult.context) = 10000

\* two results fill the limit and the entry of the third holds no text
C25_WitnessNothingLeft ==
    /\ Submitted
    /\ Len(qaResult.context) = 3
    /\ qaResult.context[3].content = <<>>
    /\ TextLength(qaResult.context) = 10000

\* four results were found, all short, and three of them are in the context
C25_WitnessTopThree ==
    /\ Submitted
    /\ Len(qaResult.results) = 4
    /\ Len(qaResult.context) = 3
    /\ TextLength(qaResult.context) < 10000

-----------------------------------------------------------------------------
(* Properties of the date of issue that save_document stores, under        *)
(* SpecSaveDates                                                           *)

\* a date written as YYYY-MM-DD
Iso(date) == Str(<<date.year, "-", date.month, "-", date.day>>)

\* save_document has stored a document whose date of issue was written so
SavedAs(issue_date) ==
    db' = Append(db, NewRow(DatedDocument(Some(issue_date)), lastId + 1))

\* C26: for a date of issue written in any of the four formats, the row
\* that save_document inserts holds that date written as YYYY-MM-DD
C26_StoredAsIso ==
    [][\A date \in IssueDates, format \in DateFormats :
           SavedAs(Written(date, format)) =>
               db'[Len(db')].issue_date = Some(Iso(date))]_vars

\* C26, the part that holds: a date written as DD/MM/YYYY or as YYYY-MM-DD
\* is stored as YYYY-MM-DD
C26_SlashDayFirstAndIso ==
    [][\A date \in IssueDates, format \in {"DD/MM/YYYY", "YYYY-MM-DD"} :
           SavedAs(Written(date, format)) =>
               db'[Len(db')].issue_date = Some(Iso(date))]_vars

\* a row holds a date of issue with the day first
C26_DayFirstStored ==
    \E i \in 1..Len(db) :
        db[i].issue_date = Some(Str(<<"19", "-", "02", "-", "2025">>))

\* a row holds a date of issue written as YYYY-MM-DD
C26_IsoStored ==
    \E i \in 1..Len(db) : db[i].issue_date = Some(Iso(CHOOSE d \in IssueDates : d.day = "19"))

-----------------------------------------------------------------------------
(* Properties of the group selector of the upload page, under SpecUpload   *)

\* the run draws the selector for a file it was not drawing before: there
\* is no value under the key group_selector_<name>
NewFileShown ==
    /\ IsSome(group_selector')
    /\ \/ group_selector = None
       \/ Val(group_selector).name # Val(group_selector').name

\* C27: the selector drawn for a newly uploaded file shows the group of the
\* file's automatic classification, and a record is saved under the group
\* the selector shows
C27_DefaultsToAutomaticGroup ==
    [][/\ NewFileShown =>
              Val(group_selector').folder = classification'.main_folder
       /\ Len(db') > Len(db) =>
              db'[Len(db')].category = Val(group_selector').folder]_vars

\* C27, the part that holds: the first file of a session is shown under
\* the group of its automatic classification, and a record is saved under
\* the group the selector shows, which is the one it showed before the click
C27_SavedUnderShownGroup ==
    [][/\ NewFileShown /\ selected_folder = None =>
              Val(group_selector').folder = classification'.main_folder
       /\ Len(db') > Len(db) =>
              /\ db'[Len(db')].category = Val(group_selector').folder
              /\ group_selector' = group_selector]_vars

\* a file classified otherwise is shown under the group of the file that
\* was in the uploader before it
C27_PreviousGroupShown ==
    /\ stage = "shown"
    /\ filename = Str(<<"bao cao", ".pdf">>)
    /\ group_selector =
           Some([name |-> filename, folder |-> "Metro_DuongSatDoThi"])
    /\ classification.main_folder # "Metro_DuongSatDoThi"

\* a record of a file classified otherwise is stored under the group of an
\* earlier file
C27_SavedUnderPreviousGroup ==
    \E i \in 1..Len(db) :
        /\ db[i].filename = Str(<<"bao cao", ".pdf">>)
        /\ db[i].category = "Metro_DuongSatDoThi"

-----------------------------------------------------------------------------
(* Properties of the classification after analyze, under SpecInsights      *)

\* what classify returned for the text and the file name
AsClassified == classify(content, filename)

\* C28: after analyze has returned, classification['matched_keywords'] is
\* the list that classify produced
C28_ClassificationUnchanged ==
    Analyzed => classification.matched_keywords = AsClassified.matched_keywords

\* C28, the part that holds: analyze changes no other entry of the
\* classification, the list keeps what classify produced at its head, and
\* it is unchanged when the text announces no numbered act
C28_OnlyKeywordsExtended ==
    Analyzed =>
        /\ [classification EXCEPT !.matched_keywords = <<>>] =
               [AsClassified EXCEPT !.matched_keywords = <<>>]
        /\ FirstN(classification.matched_keywords,
                  Len(AsClassified.matched_keywords)) =
               AsClassified.matched_keywords
        /\ AppendedKeywords(Lower(content)) = <<>> =>
               classification.matched_keywords = AsClassified.matched_keywords

\* after analyze the classification holds the number of an act, which is
\* no keyword of the classifier
C28_ActNumberAmongKeywords ==
    /\ Analyzed
    /\ Len(classification.matched_keywords) >
           Len(AsClassified.matched_keywords)
    /\ \E i \in 1..Len(classification.matched_keywords) :
           classification.matched_keywords[i] \in
               {AppendedKeywords(Lower(content))[j] :
                    j \in 1..Len(AppendedKeywords(Lower(content)))}

\* analyze has run on a text without a numbered act
C28_NothingAppended ==
    /\ Analyzed
    /\ AsClassified.matched_keywords # <<>>
    /\ classification.matched_keywords = AsClassified.matched_keywords

-----------------------------------------------------------------------------
(* Properties of the client after reload_openai_client, under SpecKeys     *)

\* reload_openai_client has just run
Reloaded == stage = "reloaded"

\* a credential is configured: some layer holds a key
Configured == HoldsKey(sessionKey) \/ HoldsKey(envKey) \/ HoldsKey(fileKey)

\* C29: after reload_openai_client the QA system holds a client only if a
\* credential is configured, and without a credential answer_question does
\* not reach the chat completion call
C29_ClientOnlyWithCredential ==
    Reloaded =>
        /\ IsSome(client) => Configured
        /\ ~Configured =>
               \A question \in Questions :
                   ~CallsModel(question, None, TRUE, client, db, NoFail)

\* C29, what holds instead: reload_openai_client leaves the client as it
\* was or replaces it by one built from the key that get_api_key returns,
\* and no step drops a client that was built
C29_ClientKeptOrRebuilt ==
    [][/\ stage' = "reloaded" =>
              client' \in {client, get_api_key(sessionKey, envKey, fileKey)}
       /\ IsSome(client) => IsSome(client')]_vars

\* the credential was removed and the client reloaded: the client built
\* from the removed key is still held, and a question reaches the model
C29_StaleClientKept ==
    /\ Reloaded
    /\ ~Configured
    /\ client = Some(Str(<<"sk-E">>))
    /\ CallsModel(Str(<<"Metro", " ", "ga">>), None, TRUE, client, db, NoFail)

\* a key was configured and the client reloaded: the client is built from
\* the key
C29_ClientRebuilt ==
    /\ Reloaded
    /\ sessionKey # None
    /\ client = sessionKey
    /\ envKey # client

=============================================================================
